---- MODULE Spec2Model ----
(***************************************************************************)
(* Model of GlobalHandler (static/js/helping_hands.js): the four form      *)
(* submit handlers, the event-detail fetch, their AJAX completion          *)
(* callbacks and the DOM state they read and write.                        *)
(*                                                                         *)
(* Field values are sequences of one-character strings, so that trim(),    *)
(* the two regular expressions and parseFloat() are computed character by  *)
(* character.  Messages are ordinary strings.  A JavaScript object is a    *)
(* function whose DOMAIN is the set of keys that are present.              *)
(***************************************************************************)
EXTENDS Integers, Sequences, FiniteSets, TLC

VARIABLES page, csrfToken, values, invalid, feedback, fragments, spinner,
          modal, inflight, ev

vars == <<page, csrfToken, values, invalid, feedback, fragments, spinner,
          modal, inflight, ev>>

----------------------------------------------------------------------------
(* Bounds *)

\* requests that may be in flight at the same time
MaxInFlight == 2

----------------------------------------------------------------------------
(* Characters and strings *)

Digits == {"0", "1", "2", "3", "4", "5", "6", "7", "8", "9"}

(* A character is a string: a printable ASCII character is written as it *)
(* is, tab, line feed, carriage return and form feed by their escapes, and *)
(* every other character (the other control characters, the grave accent,  *)
(* every character above U+007E) by the name of its code point: "U+" and    *)
(* its hexadecimal digits in upper case, four of them or as many as the     *)
(* code point needs, as in "U+00E9" and "U+1F600".                          *)
IsName(c) == Len(c) >= 6 /\ SubSeq(c, 1, 2) = "U+"

HexDigitVal(h) ==
    CASE h = "0" -> 0 [] h = "1" -> 1 [] h = "2" -> 2 [] h = "3" -> 3
      [] h = "4" -> 4 [] h = "5" -> 5 [] h = "6" -> 6 [] h = "7" -> 7
      [] h = "8" -> 8 [] h = "9" -> 9
      [] h \in {"A", "a"} -> 10 [] h \in {"B", "b"} -> 11
      [] h \in {"C", "c"} -> 12 [] h \in {"D", "d"} -> 13
      [] h \in {"E", "e"} -> 14 [] h \in {"F", "f"} -> 15

RECURSIVE HexValue(_, _)
HexValue(hex, acc) ==
    IF hex = "" THEN acc
    ELSE HexValue(Tail(hex), 16 * acc + HexDigitVal(Head(hex)))

\* the code point of a character given by its name
CodePoint(c) == HexValue(SubSeq(c, 3, Len(c)), 0)

\* \s of the regular expressions and the white space String.trim strips:
\* the 25 characters WhiteSpace and LineTerminator of ECMAScript
WhiteSpace ==
    {" ", "\t", "\n", "\r", "\f", "U+000B", "U+00A0", "U+1680", "U+FEFF",
     "U+2000", "U+2001", "U+2002", "U+2003", "U+2004", "U+2005",
     "U+2006", "U+2007", "U+2008", "U+2009", "U+200A", "U+2028",
     "U+2029", "U+202F", "U+205F", "U+3000"}

\* one hexadecimal digit
HexChar(d) ==
    CASE d = 0 -> "0" [] d = 1 -> "1" [] d = 2 -> "2" [] d = 3 -> "3"
      [] d = 4 -> "4" [] d = 5 -> "5" [] d = 6 -> "6" [] d = 7 -> "7"
      [] d = 8 -> "8" [] d = 9 -> "9" [] d = 10 -> "A" [] d = 11 -> "B"
      [] d = 12 -> "C" [] d = 13 -> "D" [] d = 14 -> "E" [] d = 15 -> "F"

\* the printable ASCII characters in the order of their code points, from
\* U+0020 on (the grave accent, which a string of this module cannot hold,
\* under a blank)
Ascii ==
    " !\"#$%&'()*+,-./0123456789:;<=>?@ABCDEFGHIJKLMNOPQRSTUVWXYZ[\\]^_ abcdefghijklmnopqrstuvwxyz{|}~"

\* the one way this module writes a character: a name of a character that
\* is written as it is or by an escape is replaced by that, every other
\* name gets upper-case digits without leading zeros beyond four
RECURSIVE HexName(_, _)
HexName(n, len) ==
    IF n = 0 /\ len >= 4 THEN ""
    ELSE HexName(n \div 16, len + 1) \o HexChar(n % 16)

\* the character of a code point
CharOf(cp) ==
    IF cp = 9 THEN "\t" ELSE IF cp = 10 THEN "\n"
    ELSE IF cp = 12 THEN "\f" ELSE IF cp = 13 THEN "\r"
    ELSE IF cp >= 32 /\ cp <= 126 /\ cp # 96
    THEN SubSeq(Ascii, cp - 31, cp - 31)
    ELSE "U+" \o HexName(cp, 0)

Canon(c) == IF ~IsName(c) THEN c ELSE CharOf(CodePoint(c))

IsSpace(c) == c \in WhiteSpace

RECURSIVE trimStart(_)
trimStart(s) ==
    IF s = <<>> THEN <<>>
    ELSE IF IsSpace(Head(s)) THEN trimStart(Tail(s)) ELSE s

RECURSIVE trimEnd(_)
trimEnd(s) ==
    IF s = <<>> THEN <<>>
    ELSE IF IsSpace(s[Len(s)]) THEN trimEnd(SubSeq(s, 1, Len(s) - 1)) ELSE s

\* String.prototype.trim
trim(s) == trimEnd(trimStart(s))

\* one or more characters of the class [^\s@]
NoSpaceAt(s) ==
    /\ s # <<>>
    /\ \A i \in 1..Len(s) : ~IsSpace(s[i]) /\ s[i] # "@"

\* /^[^\s@]+@[^\s@]+\.[^\s@]+$/.test(s)
emailRegexNoDot(s) ==
    \E i \in 1..Len(s) :
        /\ s[i] = "@"
        /\ NoSpaceAt(SubSeq(s, 1, i - 1))
        /\ NoSpaceAt(SubSeq(s, i + 1, Len(s)))

emailRegex(s) ==
    \E i \in 1..Len(s) : \E j \in (i + 1)..Len(s) :
        /\ s[i] = "@"
        /\ s[j] = "."
        /\ NoSpaceAt(SubSeq(s, 1, i - 1))
        /\ NoSpaceAt(SubSeq(s, i + 1, j - 1))
        /\ NoSpaceAt(SubSeq(s, j + 1, Len(s)))

\* /^[\d\s\-\+\(\)]+$/.test(s)
phoneRegex(s) ==
    /\ s # <<>>
    /\ \A i \in 1..Len(s) :
          s[i] \in Digits \/ IsSpace(s[i]) \/ s[i] \in {"-", "+", "(", ")"}

\* the value of one decimal digit
DigitVal(c) ==
    CASE c = "0" -> 0 [] c = "1" -> 1 [] c = "2" -> 2 [] c = "3" -> 3
      [] c = "4" -> 4 [] c = "5" -> 5 [] c = "6" -> 6 [] c = "7" -> 7
      [] c = "8" -> 8 [] c = "9" -> 9

\* the longest prefix of s made of digits
RECURSIVE DigitPrefix(_)
DigitPrefix(s) ==
    IF s = <<>> \/ Head(s) \notin Digits THEN <<>>
    ELSE <<Head(s)>> \o DigitPrefix(Tail(s))

\* the number written by a sequence of digits, continuing from acc
RECURSIVE DigitsValue(_, _)
DigitsValue(s, acc) ==
    IF s = <<>> THEN acc ELSE DigitsValue(Tail(s), 10 * acc + DigitVal(Head(s)))

\* the characters of a string, and the string of a sequence of characters
Chars(str) == [i \in 1..Len(str) |-> SubSeq(str, i, i)]

RECURSIVE StrOf(_)
StrOf(cs) == IF cs = <<>> THEN "" ELSE Head(cs) \o StrOf(Tail(cs))

\* the character at a position, "" behind the end
At(s, i) == IF i >= 1 /\ i <= Len(s) THEN s[i] ELSE ""

\* the word w stands at position i of s
WordAt(s, i, w) ==
    i + Len(w) - 1 <= Len(s) /\ SubSeq(s, i, i + Len(w) - 1) = Chars(w)

\* s without its leading zeros
RECURSIVE dropZeros(_)
dropZeros(ds) ==
    IF ds # <<>> /\ Head(ds) = "0" THEN dropZeros(Tail(ds)) ELSE ds

\* the decimal numeral of a natural number
RECURSIVE NatStr(_)
NatStr(n) ==
    LET d == CASE n % 10 = 0 -> "0" [] n % 10 = 1 -> "1" [] n % 10 = 2 -> "2"
               [] n % 10 = 3 -> "3" [] n % 10 = 4 -> "4" [] n % 10 = 5 -> "5"
               [] n % 10 = 6 -> "6" [] n % 10 = 7 -> "7" [] n % 10 = 8 -> "8"
               [] n % 10 = 9 -> "9"
    IN  IF n < 10 THEN d ELSE NatStr(n \div 10) \o d

----------------------------------------------------------------------------
(* Numbers: a decimal literal is read as the double nearest to it, and a   *)
(* double is written with the fewest digits that read back as the same     *)
(* double (parseFloat, JSON.parse and the unary plus read, String and      *)
(* template literals write).  The arithmetic is done on decimal digits.    *)

(* A decimal number is [ds, e10]: d1.d2...dn times ten to the e10, the     *)
(* digits ds as numbers, d1 and dn not 0; no digits at all is the number   *)
(* 0.  A double is [inf, q, e2]: Infinity, or q * 2^e2 with q written by   *)
(* its digits, where 2^52 <= q < 2^53 and e2 <= 971, or 0 < q < 2^52 and   *)
(* e2 = -1074, or q = 0 (no digits).                                       *)

\* ds without its zeros at the end
RECURSIVE dropLast0(_)
dropLast0(ds) ==
    IF ds # <<>> /\ ds[Len(ds)] = 0
    THEN dropLast0(SubSeq(ds, 1, Len(ds) - 1)) ELSE ds

\* -1, 0, 1 as the digits a write less than, the same as, more than the
\* digits b, the shorter one continued with zeros
RECURSIVE DigitsCmp(_, _)
DigitsCmp(a, b) ==
    IF a = <<>> THEN (IF b = <<>> THEN 0 ELSE 0 - 1)
    ELSE IF b = <<>> THEN 1
    ELSE IF Head(a) # Head(b) THEN (IF Head(a) < Head(b) THEN 0 - 1 ELSE 1)
    ELSE DigitsCmp(Tail(a), Tail(b))

\* -1, 0, 1 as x is less than, the same as, more than y
DecCmp(x, y) ==
    IF x.ds = <<>> \/ y.ds = <<>> THEN DigitsCmp(x.ds, y.ds)
    ELSE IF x.e10 # y.e10 THEN (IF x.e10 < y.e10 THEN 0 - 1 ELSE 1)
    ELSE DigitsCmp(x.ds, y.ds)

\* beyond this power of ten every number is 0 or Infinity as a double
ExpFar == 400

(* The number ip.fp times ten to the exponent written by the digits ed,    *)
(* negative when eneg.  The exponent may have any number of digits; the    *)
(* power of ten of the first digit is taken as ExpFar above ExpFar and as  *)
(* -ExpFar below -ExpFar.                                                  *)
Literal(ip, fp, eneg, ed) ==
    LET sig   == dropZeros(ip \o fp)
        k     == Len(sig) - Len(fp) - 1
        e     == dropZeros(ed)
        n     == IF eneg THEN k + ExpFar + 1 ELSE ExpFar + 1 - k
        \* the exponent written is below n
        below == n > 0 /\ Len(e) <= Len(NatStr(n)) /\ DigitsValue(e, 0) < n
        e10   == IF eneg THEN k - DigitsValue(e, 0) ELSE k + DigitsValue(e, 0)
    IN  [ds  |-> dropLast0([i \in 1..Len(sig) |-> DigitVal(sig[i])]),
         e10 |-> IF ~below THEN (IF eneg THEN 0 - ExpFar ELSE ExpFar)
                 ELSE IF e10 > ExpFar THEN ExpFar
                 ELSE IF e10 < 0 - ExpFar THEN 0 - ExpFar
                 ELSE e10]

\* half of x
Half(x) ==
    LET n   == Len(x.ds)
        raw == [i \in 1..(n + 1) |->
                  ((IF i <= n THEN x.ds[i] ELSE 0)
                   + 10 * (IF i > 1 THEN x.ds[i - 1] % 2 ELSE 0)) \div 2]
        a   == IF raw[1] = 0 THEN 2 ELSE 1
        b   == IF raw[n + 1] = 0 THEN n ELSE n + 1
    IN  [ds |-> SubSeq(raw, a, b), e10 |-> x.e10 - (a - 1)]

\* twice x
Twice(x) ==
    LET n   == Len(x.ds)
        raw == [j \in 1..(n + 1) |->
                  (2 * (IF j > 1 THEN x.ds[j - 1] ELSE 0)
                   + (IF j <= n /\ x.ds[j] >= 5 THEN 1 ELSE 0)) % 10]
        a   == IF raw[1] = 0 THEN 2 ELSE 1
        b   == IF raw[n + 1] = 0 THEN n ELSE n + 1
    IN  [ds |-> SubSeq(raw, a, b), e10 |-> x.e10 + (2 - a)]

\* x times two to the k
RECURSIVE Scale(_, _)
Scale(x, k) ==
    IF x.ds = <<>> \/ k = 0 THEN x
    ELSE IF k = 1 THEN Twice(x)
    ELSE IF k = 0 - 1 THEN Half(x)
    ELSE Scale(Scale(x, k \div 2), k - (k \div 2))

\* the digits of a natural number plus one
RECURSIVE Inc(_)
Inc(ds) ==
    IF ds = <<>> THEN <<1>>
    ELSE IF ds[Len(ds)] # 9 THEN [ds EXCEPT ![Len(ds)] = @ + 1]
    ELSE Append(Inc(SubSeq(ds, 1, Len(ds) - 1)), 0)

\* the digits of a natural number above 0 minus one
RECURSIVE Pred(_)
Pred(ds) ==
    IF ds = <<1>> THEN <<>>
    ELSE IF ds[Len(ds)] # 0 THEN [ds EXCEPT ![Len(ds)] = @ - 1]
    ELSE Append(Pred(SubSeq(ds, 1, Len(ds) - 1)), 9)

\* a natural number, written by its digits, as a decimal number, and back
DecOfNat(ds) ==
    [ds |-> dropLast0(ds), e10 |-> IF ds = <<>> THEN 0 ELSE Len(ds) - 1]
NatOfDec(x) ==
    IF x.ds = <<>> THEN <<>>
    ELSE [i \in 1..(x.e10 + 1) |-> IF i <= Len(x.ds) THEN x.ds[i] ELSE 0]

\* the digits of 2^52 and of 2^53
TwoTo52 == <<4, 5, 0, 3, 5, 9, 9, 6, 2, 7, 3, 7, 0, 4, 9, 6>>
TwoTo53 == <<9, 0, 0, 7, 1, 9, 9, 2, 5, 4, 7, 4, 0, 9, 9, 2>>

\* s = x * 2^(-e2) for the e2 with 2^52 <= s < 2^53, starting from
\* another of the powers of two
RECURSIVE Fit(_, _)
Fit(s, e2) ==
    IF DecCmp(s, DecOfNat(TwoTo53)) >= 0 THEN Fit(Half(s), e2 + 1)
    ELSE IF DecCmp(s, DecOfNat(TwoTo52)) < 0 THEN Fit(Twice(s), e2 - 1)
    ELSE [s |-> s, e2 |-> e2]

(* The double nearest to the decimal number x, the even one of two.  Below *)
(* 2^-1022 the doubles are the multiples of 2^-1074.                       *)
ToDouble(x) ==
    LET Zero == [inf |-> FALSE, q |-> <<>>, e2 |-> 0]
        Infinity == [inf |-> TRUE, q |-> <<>>, e2 |-> 0]
        \* the natural number nearest to s, and the even one of two
        RoundHalfEven(s) ==
            LET int  == IF s.e10 < 0 THEN <<>>
                        ELSE [i \in 1..(s.e10 + 1) |->
                                IF i <= Len(s.ds) THEN s.ds[i] ELSE 0]
                frac == IF s.e10 < 0 - 1 THEN <<0>>
                        ELSE SubSeq(s.ds, s.e10 + 2, Len(s.ds))
                odd  == int # <<>> /\ int[Len(int)] % 2 = 1
                up   == /\ frac # <<>>
                        /\ \/ frac[1] > 5
                           \/ frac[1] = 5 /\ (Len(frac) > 1 \/ odd)
            IN  IF up THEN Inc(int) ELSE int
        \* the double q * 2^e2 for a rounded q, which may have reached 2^53
        Rounded(q, e2) ==
            IF q = <<>> THEN Zero
            ELSE IF q = TwoTo53
            THEN (IF e2 + 1 > 971 THEN Infinity
                  ELSE [inf |-> FALSE, q |-> TwoTo52, e2 |-> e2 + 1])
            ELSE IF e2 > 971 THEN Infinity
            ELSE [inf |-> FALSE, q |-> q, e2 |-> e2]
        Fitted(f) ==
            IF f.e2 < 0 - 1074
            THEN Rounded(RoundHalfEven(Scale(f.s, f.e2 + 1074)), 0 - 1074)
            ELSE Rounded(RoundHalfEven(f.s), f.e2)
    IN  IF x.ds = <<>> \/ x.e10 < 0 - 324 THEN Zero
        ELSE IF x.e10 > 308 THEN Infinity
        ELSE Fitted(Fit(Scale(x, 53 - ((x.e10 * 3322) \div 1000)),
                        ((x.e10 * 3322) \div 1000) - 53))

(* The number of the fewest digits, k or more, between lo and hi, which    *)
(* are taken in when closed: the one nearest to x of two, and the one with *)
(* the even last digit when x lies in their middle.                        *)
RECURSIVE Shortest(_, _, _, _, _)
Shortest(x, lo, hi, closed, k) ==
    LET \* x cut after k digits, and the next number of k digits above that
        floor == [ds |-> dropLast0(SubSeq(x.ds, 1, k)), e10 |-> x.e10]
        ceil  == IF \A i \in 1..k : x.ds[i] = 9
                 THEN [ds |-> <<1>>, e10 |-> x.e10 + 1]
                 ELSE [ds  |-> dropLast0(Inc(SubSeq(x.ds, 1, k))),
                       e10 |-> x.e10]
        \* x against the middle of the two
        side  == DecCmp(x, [ds |-> Append(SubSeq(x.ds, 1, k), 5),
                            e10 |-> x.e10])
        \* a lies below b, or is b when closed
        Below(a, b) == DecCmp(a, b) < (IF closed THEN 1 ELSE 0)
    IN  IF k >= Len(x.ds) THEN x
        ELSE IF /\ Below(lo, floor)
                /\ \/ ~Below(ceil, hi)
                   \/ side < 0
                   \/ side = 0 /\ x.ds[k] % 2 = 0
        THEN floor
        ELSE IF Below(ceil, hi) THEN ceil
        ELSE Shortest(x, lo, hi, closed, k + 1)

(* The digits String writes for the double v above 0: the shortest between *)
(* the two numbers between which every number is read as v, these two      *)
(* taken in when q is even.  The upper one is (2q + 1) * 2^(e2 - 1), the   *)
(* lower one (2q - 1) * 2^(e2 - 1), and (4q - 1) * 2^(e2 - 2) when q is    *)
(* 2^52, below which the doubles lie closer.                               *)
ShortestDigits(v) ==
    LET \* 2n + 1 for the natural number n
        Odd(n) == DecOfNat(Inc(NatOfDec(Twice(DecOfNat(n)))))
    IN  Shortest(Scale(DecOfNat(v.q), v.e2),
                 IF v.q = TwoTo52 /\ v.e2 > 0 - 1074
                 THEN Scale(DecOfNat(Pred(NatOfDec(Scale(DecOfNat(v.q), 2)))),
                            v.e2 - 2)
                 ELSE Scale(Odd(Pred(v.q)), v.e2 - 1),
                 Scale(Odd(v.q), v.e2 - 1),
                 v.q[Len(v.q)] % 2 = 0,
                 1)

(* parseFloat(s): leading white space is skipped, then an optional sign,   *)
(* then the longest prefix that is a decimal literal: the word Infinity,   *)
(* or digits, optionally a point and more digits, or a point followed by   *)
(* digits, each optionally with an exponent part; what follows is ignored. *)
(* The result is NaN when there is no such prefix, and otherwise the       *)
(* double nearest to the literal, of which the sign (neg) and whether it   *)
(* is 0 (zero) are kept.  A literal is read as 0 when it is 0 or at most   *)
(* 2^-1075 = 2.47...e-324.                                                 *)
parseFloat(s) ==
    LET t    == trimStart(s)
        sgn  == t # <<>> /\ Head(t) \in {"-", "+"}
        neg  == t # <<>> /\ Head(t) = "-"
        u    == IF sgn THEN Tail(t) ELSE t
        ip   == DigitPrefix(u)
        r    == SubSeq(u, Len(ip) + 1, Len(u))
        dot  == r # <<>> /\ Head(r) = "."
        fp   == IF dot THEN DigitPrefix(Tail(r)) ELSE <<>>
        m    == Len(ip) + (IF dot THEN 1 + Len(fp) ELSE 0)
        esgn == At(u, m + 2) \in {"-", "+"}
        ed   == IF At(u, m + 1) \in {"e", "E"}
                THEN DigitPrefix(SubSeq(u, IF esgn THEN m + 3 ELSE m + 2, Len(u)))
                ELSE <<>>
        IsZero(x) == \/ x.ds = <<>>
                     \/ x.e10 < 0 - 324
                     \/ x.e10 = 0 - 324 /\ ToDouble(x).q = <<>>
    IN  IF WordAt(u, 1, "Infinity")
        THEN [nan |-> FALSE, neg |-> neg, zero |-> FALSE]
        ELSE IF ip = <<>> /\ fp = <<>>
        THEN [nan |-> TRUE, neg |-> FALSE, zero |-> FALSE]
        ELSE [nan |-> FALSE, neg |-> neg,
              zero |-> IsZero(Literal(ip, fp,
                                      esgn /\ At(u, m + 2) = "-", ed))]

\* a message string is falsy exactly when it is empty
Truthy(s) == s # ""

\* Array.prototype.join
RECURSIVE join(_, _)
join(strs, sep) ==
    IF strs = <<>> THEN ""
    ELSE IF Len(strs) = 1 THEN strs[1]
    ELSE strs[1] \o sep \o join(Tail(strs), sep)

\* the character a locale puts between the groups of digits of a number
GroupSeparator(locale) == IF locale = "de-DE" THEN "." ELSE ","

\* n written with at least size digits
RECURSIVE Padded(_, _)
Padded(n, size) ==
    IF size <= 1 THEN NatStr(n)
    ELSE IF n < 10 THEN join([i \in 1..(size - 1) |-> "0"], "") \o NatStr(n)
    ELSE Padded(n \div 10, size - 1) \o NatStr(n % 10)

\* the groups left of the last three digits, of two digits each in en-IN
\* and of three in the other locales
RECURSIVE Grouped(_, _)
Grouped(n, locale) ==
    LET size == IF locale = "en-IN" THEN 2 ELSE 3
        unit == IF size = 2 THEN 100 ELSE 1000
    IN  IF n < unit THEN NatStr(n)
        ELSE Grouped(n \div unit, locale) \o GroupSeparator(locale)
             \o Padded(n % unit, size)

(* Number.prototype.toLocaleString of a natural number, called without     *)
(* argument: the digits in the groups of the locale of the browser, the    *)
(* last group of three digits                                              *)
toLocaleString(n, locale) ==
    IF n < 1000 THEN NatStr(n)
    ELSE Grouped(n \div 1000, locale) \o GroupSeparator(locale)
         \o Padded(n % 1000, 3)

----------------------------------------------------------------------------
(* The page: one of the four forms, or the event list *)

Forms == {"contact", "registration", "volunteer", "donation"}

\* two further markups of #contact-form, on which the validator is explored:
\* one with every control required, one with an optional email and an
\* optional tel control
ContactMarkups == {"contact-full", "contact-optional"}

\* the named controls of each form, in document order
FormFields(form) ==
    CASE form = "contact"      -> <<"name", "email">>
      [] form = "contact-full"     -> <<"email", "phone", "name">>
      [] form = "contact-optional" -> <<"name", "email", "phone">>
      [] form = "registration" -> <<"email", "notes">>
      [] form = "volunteer"    -> <<"name", "phone">>
      [] form = "donation"     -> <<"amount", "email">>
      [] OTHER                 -> <<>>

FieldSet(form) == {FormFields(form)[i] : i \in 1..Len(FormFields(form))}

\* the controls carrying the required attribute
Required(form, f) ==
    \/ form = "contact"
    \/ form = "contact-full"
    \/ form = "contact-optional" /\ f = "name"
    \/ form = "registration" /\ f = "email"
    \/ form = "volunteer"
    \/ form = "donation"

\* the type attribute of a control
FieldType(f) ==
    CASE f = "email" -> "email"
      [] f = "phone" -> "tel"
      [] OTHER       -> "text"

\* the controls that have a sibling .invalid-feedback element
HasFeedback(form, f) ==
    \/ f = "email"
    \/ f = "phone" /\ form = "volunteer"

\* the value a control has in the markup, restored by form.reset()
DefaultValue(form, f) == IF f = "amount" THEN <<"1", "0">> ELSE <<>>

\* what the user may type into a control
FieldValues(form, f) ==
    CASE f = "name"   -> {<<>>, <<" ">>, <<"A", "l">>}
      [] f = "email"  -> {<<>>, <<"a", "@", "b", ".", "c", "o">>}
                         \cup (IF form = "donation" THEN {} ELSE {<<"a", "b">>})
      [] f = "phone"  -> {<<>>, <<"+", "1", " ", "(", "5", ")">>, <<"5", "a">>}
      [] f = "notes"  -> {<<>>, <<"h", "&">>}
      [] f = "amount" -> {<<>>, <<"0">>, <<"-", "5">>, <<"1", "0">>,
                          <<"a", "b", "c">>, <<"1", "e", "-", "4", "0", "0">>}

----------------------------------------------------------------------------
(* validateForm *)

\* the violations of one required field, in the order they are pushed
FieldErrorsNoTrim(f, raw) ==
    (IF raw = <<>> THEN <<f \o " is required">> ELSE <<>>)
    \o (IF FieldType(f) = "email" /\ raw # <<>> /\ ~emailRegex(raw)
        THEN <<f \o " must be a valid email address">> ELSE <<>>)
    \o (IF FieldType(f) = "tel" /\ raw # <<>> /\ ~phoneRegex(raw)
        THEN <<f \o " must be a valid phone number">> ELSE <<>>)

FieldErrors(f, raw) ==
    LET value == trim(raw)
    IN  (IF value = <<>> THEN <<f \o " is required">> ELSE <<>>)
        \o (IF FieldType(f) = "email" /\ value # <<>> /\ ~emailRegex(value)
            THEN <<f \o " must be a valid email address">> ELSE <<>>)
        \o (IF FieldType(f) = "tel" /\ value # <<>> /\ ~phoneRegex(value)
            THEN <<f \o " must be a valid phone number">> ELSE <<>>)

\* the is-invalid flags after the loop body has run for field f
FieldFlagsSticky(f, raw, inv) ==
    LET value == trim(raw)
    IN  IF \/ value = <<>>
           \/ FieldType(f) = "email" /\ ~emailRegex(value)
           \/ FieldType(f) = "tel" /\ ~phoneRegex(value)
        THEN inv \cup {f} ELSE inv

FieldFlags(f, raw, inv) ==
    LET value == trim(raw)
        inv1  == IF value = <<>> THEN inv \cup {f} ELSE inv \ {f}
        inv2  == IF FieldType(f) = "email" /\ value # <<>> /\ ~emailRegex(value)
                 THEN inv1 \cup {f} ELSE inv1
    IN  IF FieldType(f) = "tel" /\ value # <<>> /\ ~phoneRegex(value)
        THEN inv2 \cup {f} ELSE inv2

\* requiredFields.each(...): the fields of the form from position i on
RECURSIVE validateFromAll(_, _, _, _, _)
validateFromAll(form, i, vals, errors, inv) ==
    IF i > Len(FormFields(form)) THEN [errors |-> errors, invalid |-> inv]
    ELSE LET f == FormFields(form)[i]
         IN  validateFromAll(form, i + 1, vals,
                             errors \o FieldErrors(f, vals[f]),
                             FieldFlags(f, vals[f], inv))

RECURSIVE validateFrom(_, _, _, _, _)
validateFrom(form, i, vals, errors, inv) ==
    IF i > Len(FormFields(form)) THEN [errors |-> errors, invalid |-> inv]
    ELSE LET f == FormFields(form)[i]
         IN  IF Required(form, f)
             THEN validateFrom(form, i + 1, vals,
                               errors \o FieldErrors(f, vals[f]),
                               FieldFlags(f, vals[f], inv))
             ELSE validateFrom(form, i + 1, vals, errors, inv)

\* validateForm(form): the result and the flags it leaves on the form
validateForm(form, vals, inv) ==
    LET r == validateFrom(form, 1, vals, <<>>, inv)
    IN  [isValid |-> r.errors = <<>>, errors |-> r.errors, invalid |-> r.invalid]

----------------------------------------------------------------------------
(* Requests *)

\* the characters encodeURIComponent leaves as they are
Letters ==
    {"a", "b", "c", "d", "e", "f", "g", "h", "i", "j", "k", "l", "m", "n",
     "o", "p", "q", "r", "s", "t", "u", "v", "w", "x", "y", "z",
     "A", "B", "C", "D", "E", "F", "G", "H", "I", "J", "K", "L", "M", "N",
     "O", "P", "Q", "R", "S", "T", "U", "V", "W", "X", "Y", "Z"}

Unreserved == Letters \cup Digits \cup {"-", "_", ".", "!", "~", "*", "'", "(", ")"}

\* one byte as %XX
Percent(byte) == <<"%", HexChar(byte \div 16), HexChar(byte % 16)>>

\* the bytes of the UTF-8 encoding of a code point, each as %XX
utf8(cp) ==
    IF cp < 128 THEN Percent(cp)
    ELSE IF cp < 2048
    THEN Percent(192 + cp \div 64) \o Percent(128 + (cp % 64))
    ELSE IF cp < 65536
    THEN Percent(224 + cp \div 4096) \o Percent(128 + ((cp \div 64) % 64))
         \o Percent(128 + (cp % 64))
    ELSE Percent(240 + cp \div 262144) \o Percent(128 + ((cp \div 4096) % 64))
         \o Percent(128 + ((cp \div 64) % 64)) \o Percent(128 + (cp % 64))

\* encodeURIComponent of one character, with %20 turned into + as
\* jQuery.param does: an unreserved character stays, every other one
\* becomes the bytes of its UTF-8 encoding, each as %XX.  A lone surrogate
\* (U+D800..U+DFFF), on which encodeURIComponent throws, is no character
\* of this model.
encodeCanon(c) ==
    IF IsName(c) THEN utf8(CodePoint(c))
    ELSE CASE c \in Unreserved -> <<c>>
          [] c = " " -> <<"+">>
          [] c = "\t" -> <<"%", "0", "9">>
          [] c = "\n" -> <<"%", "0", "A">>
          [] c = "\f" -> <<"%", "0", "C">>
          [] c = "\r" -> <<"%", "0", "D">>
          [] c = "\"" -> <<"%", "2", "2">>
          [] c = "#" -> <<"%", "2", "3">>
          [] c = "$" -> <<"%", "2", "4">>
          [] c = "%" -> <<"%", "2", "5">>
          [] c = "&" -> <<"%", "2", "6">>
          [] c = "+" -> <<"%", "2", "B">>
          [] c = "," -> <<"%", "2", "C">>
          [] c = "/" -> <<"%", "2", "F">>
          [] c = ":" -> <<"%", "3", "A">>
          [] c = ";" -> <<"%", "3", "B">>
          [] c = "<" -> <<"%", "3", "C">>
          [] c = "=" -> <<"%", "3", "D">>
          [] c = ">" -> <<"%", "3", "E">>
          [] c = "?" -> <<"%", "3", "F">>
          [] c = "@" -> <<"%", "4", "0">>
          [] c = "[" -> <<"%", "5", "B">>
          [] c = "\\" -> <<"%", "5", "C">>
          [] c = "]" -> <<"%", "5", "D">>
          [] c = "^" -> <<"%", "5", "E">>
          [] c = "{" -> <<"%", "7", "B">>
          [] c = "|" -> <<"%", "7", "C">>
          [] c = "}" -> <<"%", "7", "D">>

encodeChar(c) == encodeCanon(Canon(c))

\* value.replace(/\r?\n/g, "\r\n") of jQuery's serializeArray
RECURSIVE crlf(_)
crlf(s) ==
    IF s = <<>> THEN <<>>
    ELSE IF Head(s) = "\n" THEN <<"\r", "\n">> \o crlf(Tail(s))
    ELSE IF Head(s) = "\r" /\ Len(s) >= 2 /\ s[2] = "\n"
    THEN <<"\r", "\n">> \o crlf(Tail(Tail(s)))
    ELSE <<Head(s)>> \o crlf(Tail(s))

RECURSIVE encode(_)
encode(s) == IF s = <<>> THEN <<>> ELSE encodeChar(Head(s)) \o encode(Tail(s))

\* form.serialize(): the name=value pairs in document order
serialize(form, vals) ==
    [i \in 1..Len(FormFields(form)) |->
        [name |-> FormFields(form)[i], value |-> encode(crlf(vals[FormFields(form)[i]]))]]

\* the action attribute of a form
FormAction(form) == "/" \o form \o "/"

\* a JavaScript object without keys
EmptyObj == <<>>

Has(obj, k) == k \in DOMAIN obj

\* `${x}` for a string property of an object: an absent one reads undefined
Str(obj, k) == IF Has(obj, k) THEN obj[k] ELSE "undefined"

\* obj.k, where an absent k reads undefined
Prop(obj, k) == IF Has(obj, k) THEN obj[k] ELSE [undefined |-> TRUE]

\* obj.k is present and its string value is not empty
TruthyProp(obj, k) == Has(obj, k) /\ Truthy(obj[k])

----------------------------------------------------------------------------
(* getCSRFToken *)

\* document.cookie as the rows between "; ", each row split at its "=" signs
Cookies ==
    { <<>>,
      << <<"sessionid", "s1">>, <<"csrftoken", "tokC", "x">>,
         <<"csrftoken", "tokD">> >>,
      << <<"csrftoken", "">> >> }

\* the rows of the cookie that start with csrftoken=
RECURSIVE findRow(_)
findRow(rows) ==
    IF rows = <<>> THEN <<>>
    ELSE IF Len(Head(rows)) >= 2 /\ Head(rows)[1] = "csrftoken"
         THEN <<Head(rows)>>
         ELSE findRow(Tail(rows))

getCSRFToken(cookie, meta) ==
    LET found == findRow(cookie)
        cookieValue == IF found = <<>> THEN "" ELSE found[1][2]
    IN  IF Truthy(cookieValue) THEN cookieValue
        ELSE IF TruthyProp(meta, "content") THEN meta.content
        ELSE ""

----------------------------------------------------------------------------
(* What one run of a handler or callback did *)

Toast(type, message) == [type |-> type, message |-> message]

NoReq == "none"

\* handler: the handler or callback that ran; outcome: the branch it took;
\* toasts: the calls of showToastNotification; spinnerCmds: the calls of
\* showLoadingAnimation; ajax: the calls of $.ajax; triggers: the custom
\* events triggered; thrown: an exception left the handler; op: the
\* operation of the request a callback belongs to; arg: the envelope or xhr
\* the callback was given, the attributes of the element a click handler
\* was given, the result validateForm returned
Ev(handler, outcome, toasts, spinnerCmds, ajax, triggers, thrown, op, arg) ==
    [handler |-> handler, outcome |-> outcome, toasts |-> toasts,
     spinnerCmds |-> spinnerCmds, ajax |-> ajax, triggers |-> triggers,
     thrown |-> thrown, op |-> op, arg |-> arg]

Idle(handler) == Ev(handler, "none", <<>>, <<>>, <<>>, <<>>, FALSE, NoReq, EmptyObj)

\* the POST a submit handler issues
PostRequestNoToken(form, vals, token) ==
    [type |-> "POST", url |-> FormAction(form), data |-> serialize(form, vals),
     dataType |-> "json", headers |-> EmptyObj, op |-> form]

PostRequest(form, vals, token) ==
    [type |-> "POST", url |-> FormAction(form), data |-> serialize(form, vals),
     dataType |-> "json", headers |-> ("X-CSRFToken" :> token), op |-> form]

\* the sequence s without its i-th element
Remove(s, i) == SubSeq(s, 1, i - 1) \o SubSeq(s, i + 1, Len(s))

\* form[0].reset()
ResetValues(form) == [f \in FieldSet(form) |-> DefaultValue(form, f)]

----------------------------------------------------------------------------
(* Initial state: the page has loaded and the handler is constructed *)

\* the pages of the site: the form on it (none on the event list), whether
\* it has the element #donation-progress and whether it has
\* .event-details-btn elements, which the event list has and one of the two
\* pages with the registration form
Pages ==
    {[form |-> "none", progressBar |-> FALSE, eventButtons |-> TRUE],
     [form |-> "contact", progressBar |-> FALSE, eventButtons |-> FALSE],
     [form |-> "registration", progressBar |-> FALSE, eventButtons |-> FALSE],
     [form |-> "registration", progressBar |-> FALSE, eventButtons |-> TRUE],
     [form |-> "volunteer", progressBar |-> FALSE, eventButtons |-> FALSE],
     [form |-> "donation", progressBar |-> TRUE, eventButtons |-> FALSE],
     [form |-> "donation", progressBar |-> FALSE, eventButtons |-> FALSE]}

\* the page loads explored, each a page with the cookie and the meta tag
\* the document has when the handler is constructed and the locale of the
\* browser: every page with the csrftoken cookie set, and the contact page
\* with every cookie of Cookies, without the meta tag csrf-token and with
\* it.  The locale shows
\* on the donation page with the progress bar only, which is loaded in a
\* browser whose locale does not write numbers as en-US does.
Loads ==
    {p @@ [cookie |-> << <<"csrftoken", "tokC">> >>, meta |-> EmptyObj,
           locale |-> IF p.progressBar THEN "de-DE" ELSE "en-US"] :
        p \in Pages}
    \cup {p @@ [cookie |-> c, meta |-> m, locale |-> "en-US"] :
            p \in {q \in Pages : q.form = "contact"},
            c \in Cookies, m \in {EmptyObj, [content |-> "tokM"]}}

\* a page with a form and event buttons, where submits and event-detail
\* fetches overlap, is explored on a sample of the inputs
Sampled(p) == p.form # "none" /\ p.eventButtons

\* what the user may type into a control of a page; on the donation page
\* with the progress bar, which is there for what the success callback
\* writes into the bar, the amounts typed are one the guard rejects and one
\* it accepts
Typed(p, f) ==
    IF Sampled(p)
    THEN (IF f = "email" THEN {<<>>, <<"a", "@", "b", ".", "c", "o">>}
          ELSE {<<>>})
    ELSE IF p.progressBar /\ f = "amount" THEN {<<"0">>, <<"1", "0">>}
    ELSE FieldValues(p.form, f)

NoFragments ==
    [regConf |-> EmptyObj, welcome |-> EmptyObj, receipt |-> EmptyObj,
     progress |-> EmptyObj, campaignCurrent |-> "", campaignGoal |-> ""]

(* #loading-spinner under jQuery's fadeIn(200) and fadeOut(200).  The      *)
(* element is "hidden" (not displayed) or "shown" (displayed) when no      *)
(* animation is waiting; while animations are under way it is displayed,   *)
(* and "fadingIn" or "fadingOut" names the last one queued.  fadeIn        *)
(* displays a hidden element at once and then raises its opacity; fadeOut  *)
(* lowers the opacity and takes the element from the display when it ends; *)
(* an animation called while another runs is queued behind it.             *)
fadeIn(s) == IF s = "shown" THEN "shown" ELSE "fadingIn"
fadeOut(s) == IF s = "hidden" THEN "hidden" ELSE "fadingOut"

showLoadingAnimation(show) ==
    spinner' = IF show THEN fadeIn(spinner) ELSE fadeOut(spinner)

Init ==
    /\ page \in Loads
    /\ csrfToken = getCSRFToken(page.cookie, page.meta)
    /\ values = ResetValues(page.form)
    /\ invalid = {}
    /\ feedback = [f \in {g \in FieldSet(page.form) : HasFeedback(page.form, g)} |-> ""]
    /\ fragments = NoFragments
    /\ spinner = "hidden"
    /\ modal = [shown |-> FALSE, title |-> "", body |-> EmptyObj]
    /\ inflight = <<>>
    /\ ev = Idle("constructor")

\* the user types v into the control f
Edit(f, v) ==
    /\ f \in FieldSet(page.form)
    /\ v \in Typed(page, f)
    /\ values[f] # v
    /\ values' = [values EXCEPT ![f] = v]
    /\ ev' = Idle("edit")
    /\ UNCHANGED <<page, csrfToken, invalid, feedback, fragments, spinner,
                   modal, inflight>>

\* the animations queued on #loading-spinner have run to their end, in the
\* timer callbacks of jQuery
fadeEnd ==
    /\ spinner \in {"fadingIn", "fadingOut"}
    /\ spinner' = IF spinner = "fadingIn" THEN "shown" ELSE "hidden"
    /\ ev' = Idle("fadeEnd")
    /\ UNCHANGED <<page, csrfToken, values, invalid, feedback, fragments,
                   modal, inflight>>

----------------------------------------------------------------------------
(* The submit handlers *)

\* the part the handlers share from validateForm on: a failed validation
\* notifies and returns, a passed one shows the spinner and posts the form
ValidateAndPostLocked(form, handler) ==
    LET validation == validateForm(form, values, invalid)
        req == PostRequest(form, values, csrfToken)
    IN  /\ invalid' = validation.invalid
        /\ IF ~validation.isValid
           THEN /\ ev' = Ev(handler, "invalid",
                            <<Toast("error", join(validation.errors, "<br>"))>>,
                            <<>>, <<>>, <<>>, FALSE, NoReq, EmptyObj)
                /\ UNCHANGED <<spinner, inflight>>
           ELSE IF inflight # <<>>
           THEN /\ ev' = Ev(handler, "locked", <<>>, <<>>, <<>>, <<>>, FALSE,
                            NoReq, EmptyObj)
                /\ UNCHANGED <<spinner, inflight>>
           ELSE /\ showLoadingAnimation(TRUE)
                /\ inflight' = Append(inflight, req)
                /\ ev' = Ev(handler, "sent", <<>>, <<TRUE>>, <<req>>, <<>>,
                            FALSE, NoReq, EmptyObj)
        /\ UNCHANGED <<page, csrfToken, values, feedback, fragments, modal>>

ValidateAndPost(form, handler) ==
    LET validation == validateForm(form, values, invalid)
        req == PostRequest(form, values, csrfToken)
    IN  /\ invalid' = validation.invalid
        /\ IF ~validation.isValid
           THEN /\ ev' = Ev(handler, "invalid",
                            <<Toast("error", join(validation.errors, "<br>"))>>,
                            <<>>, <<>>, <<>>, FALSE, NoReq, EmptyObj)
                /\ UNCHANGED <<spinner, inflight>>
           ELSE /\ Len(inflight) < MaxInFlight
                /\ showLoadingAnimation(TRUE)
                /\ inflight' = Append(inflight, req)
                /\ ev' = Ev(handler, "sent", <<>>, <<TRUE>>, <<req>>, <<>>,
                            FALSE, NoReq, EmptyObj)
        /\ UNCHANGED <<page, csrfToken, values, feedback, fragments, modal>>

handleFormSubmission ==
    /\ page.form = "contact"
    /\ ValidateAndPost("contact", "handleFormSubmission")

handleEventRegistration ==
    /\ page.form = "registration"
    /\ ValidateAndPost("registration", "handleEventRegistration")

handleVolunteerSignUp ==
    /\ page.form = "volunteer"
    /\ ValidateAndPost("volunteer", "handleVolunteerSignUp")

\* !amount || parseFloat(amount) <= 0
AmountRejectedEmptyOnly(amount) == amount = <<>>

AmountRejected(amount) ==
    LET \* x <= 0 for a result of parseFloat: every comparison with NaN is
        \* false
        LeqZero(x) == ~x.nan /\ (x.zero \/ x.neg)
    IN  amount = <<>> \/ LeqZero(parseFloat(amount))

handleDonationProcessingValidateFirst ==
    /\ page.form = "donation"
    /\ IF validateForm("donation", values, invalid).isValid
          /\ AmountRejected(values["amount"])
       THEN /\ ev' = Ev("handleDonationProcessing", "amount",
                        <<Toast("error", "Please enter a valid donation amount")>>,
                        <<>>, <<>>, <<>>, FALSE, NoReq, EmptyObj)
            /\ UNCHANGED <<page, csrfToken, values, invalid, feedback,
                           fragments, spinner, modal, inflight>>
       ELSE ValidateAndPost("donation", "handleDonationProcessing")

handleDonationProcessing ==
    /\ page.form = "donation"
    /\ IF AmountRejected(values["amount"])
       THEN /\ ev' = Ev("handleDonationProcessing", "amount",
                        <<Toast("error", "Please enter a valid donation amount")>>,
                        <<>>, <<>>, <<>>, FALSE, NoReq, EmptyObj)
            /\ UNCHANGED <<page, csrfToken, values, invalid, feedback,
                           fragments, spinner, modal, inflight>>
       ELSE ValidateAndPost("donation", "handleDonationProcessing")

----------------------------------------------------------------------------
(* What the server may answer *)

\* an object with the key k present or absent
Opt(k, vs) == {EmptyObj} \cup {k :> v : v \in vs}

\* the shapes of data the endpoints send, complete and with parts missing
DataOf(op) ==
    CASE op = "contact" -> {[ticket |-> "T-1"]}
      [] op = "registration" ->
            {EmptyObj,
             [registration_id |-> "REG-1", event_name |-> "Gala",
              event_date |-> "2024-01-15", confirmation_email |-> "a@b.co"]}
      [] op = "volunteer" ->
            {[volunteer_id |-> "VOL-1", name |-> "Al"],
             [volunteer_id |-> "VOL-1", name |-> "Al", next_steps |-> "Wait"]}
      [] op = "donation" ->
            {EmptyObj} \cup
            {[receipt_url |-> "/receipts/TXN-1", transaction_id |-> "TXN-1",
              amount |-> "50", currency |-> "USD", campaign_progress |-> p] :
                p \in {[percentage |-> 75],
                       [current |-> 7500, percentage |-> 75],
                       [current |-> 7500, goal |-> 10000, percentage |-> 75]}}
      [] op = "event" ->
            {EmptyObj,
             [title |-> "Gala", description |-> "Join us", date |-> "2024-01-15"],
             [title |-> "Gala", description |-> "Join us", date |-> "2024-01-15",
              time |-> "14:00", location |-> "Hall", capacity |-> "100",
              registered |-> "45", organizer |-> "HH", image_url |-> "/g.jpg"]}

\* the complaints the server may make about a field: two about a field
\* with a feedback slot, on every form but the donation form
ErrorTexts(form, f) ==
    IF f \in FieldSet(form) /\ HasFeedback(form, f) /\ form # "donation"
    THEN {"Invalid", "Taken"}
    ELSE {"Invalid"}

\* the errors objects the server may send: about any of the form's fields
\* and about one field more
ErrorMaps(form) ==
    UNION {{e \in [K -> {"Invalid", "Taken"}] : \A k \in K : e[k] \in ErrorTexts(form, k)} :
              K \in SUBSET (FieldSet(form) \cup {"captcha"})}

\* the envelopes with success = true
SuccessEnvelopes(op) ==
    {[success |-> TRUE] @@ m @@ d :
        m \in Opt("message", {"OK"}), d \in Opt("data", DataOf(op))}

\* the envelopes with success = false: bare, with a message, and with a
\* message and field errors
FailureEnvelopes(op) ==
    {[success |-> FALSE], [success |-> FALSE, message |-> "Rejected"]}
    \cup {[success |-> FALSE, message |-> "Rejected", errors |-> e] :
            e \in IF op = "event" THEN {} ELSE ErrorMaps(op)}

\* the envelopes of every operation
AllEnvelopes ==
    [op \in Forms \cup {"event"} |->
        SuccessEnvelopes(op) \cup FailureEnvelopes(op)]

\* the envelopes the requests of a page meet: every envelope of the
\* operation, and on a page with a form and event buttons two for the form
\* and two for the event-detail fetch
Answers(p, op) ==
    IF ~Sampled(p) THEN AllEnvelopes[op]
    ELSE IF op = "event"
    THEN {[success |-> TRUE,
           data |-> [title |-> "Gala", description |-> "Join us",
                     date |-> "2024-01-15"]],
          [success |-> FALSE]}
    ELSE {[success |-> TRUE, message |-> "OK"],
          [success |-> FALSE, message |-> "Rejected",
           errors |-> [email |-> "Invalid"]]}

\* what a success callback is given in place of an envelope: undefined and
\* null on the event list, undefined on the other pages
NoEnvelopes(p) ==
    IF p.form = "none" THEN {"undefined", "null"} ELSE {"undefined"}

\* xhr.status of a response; 0 is no response
Statuses == {0, 200, 204, 400, 401, 403, 404, 500, 503}

(* A text as a string of this module: a backslash is doubled and a         *)
(* character written by name becomes \u{...} with the digits of the name,  *)
(* so that two texts are the same string only when they are the same text. *)
RECURSIVE Text(_)
Text(cs) ==
    IF cs = <<>> THEN ""
    ELSE (IF Head(cs) = "\\" THEN "\\\\"
          ELSE IF IsName(Head(cs))
          THEN "\\u{" \o SubSeq(Head(cs), 3, Len(Head(cs))) \o "}"
          ELSE Head(cs)) \o Text(Tail(cs))

(* A JavaScript value read from JSON: its type, whether String(value)      *)
(* throws a TypeError, the string it gives otherwise, whether the value is *)
(* truthy, and for an object its own properties.                           *)
JsValue(kind, throws, text, truthy, props) ==
    [kind |-> kind, throws |-> throws, text |-> text, truthy |-> truthy,
     props |-> props]

JsNull == JsValue("null", FALSE, "null", FALSE, EmptyObj)
JsBool(b) ==
    JsValue("boolean", FALSE, IF b THEN "true" ELSE "false", b, EmptyObj)
JsString(s) == JsValue("string", FALSE, s, s # "", EmptyObj)
JsNumber(text, truthy) == JsValue("number", FALSE, text, truthy, EmptyObj)

(* String(object) calls the toString it finds: Object.prototype.toString,  *)
(* or an own property of that name, which in a value read from JSON is no  *)
(* function; then valueOf gives no primitive either and a TypeError is     *)
(* thrown                                                                  *)
JsObject(props) ==
    JsValue("object", Has(props, "toString"), "[object Object]", TRUE, props)

\* String(array) is Array.prototype.join: null counts as the empty string,
\* and an element whose conversion throws makes the join throw
JsArray(items) ==
    JsValue("array",
            \E i \in 1..Len(items) : items[i].throws,
            join([i \in 1..Len(items) |->
                    IF items[i].kind = "null" THEN "" ELSE items[i].text], ","),
            TRUE, EmptyObj)

\* the position behind the white space of the JSON grammar at position i
RECURSIVE skipSpace(_, _)
skipSpace(s, i) ==
    IF At(s, i) \in {" ", "\t", "\n", "\r"} THEN skipSpace(s, i + 1) ELSE i

RECURSIVE digitsEnd(_, _)
digitsEnd(s, i) == IF At(s, i) \in Digits THEN digitsEnd(s, i + 1) ELSE i

RECURSIVE zeros(_)
zeros(n) == IF n <= 0 THEN <<>> ELSE <<"0">> \o zeros(n - 1)

\* the digits ds as a string
RECURSIVE DigitsStr(_)
DigitsStr(ds) ==
    IF ds = <<>> THEN "" ELSE NatStr(Head(ds)) \o DigitsStr(Tail(ds))

(* Number::toString for the number x of the digits String writes: with an  *)
(* exponent from 1e21 on and below 1e-6, and as a decimal numeral          *)
(* otherwise                                                               *)
NumberText(x) ==
    IF x.e10 >= 21 \/ x.e10 < 0 - 6
    THEN NatStr(Head(x.ds))
         \o (IF Len(x.ds) > 1 THEN "." \o DigitsStr(Tail(x.ds)) ELSE "")
         \o (IF x.e10 < 0 THEN "e-" \o NatStr(0 - x.e10)
             ELSE "e+" \o NatStr(x.e10))
    ELSE IF x.e10 < 0
    THEN "0." \o StrOf(zeros(0 - x.e10 - 1)) \o DigitsStr(x.ds)
    ELSE IF Len(x.ds) <= x.e10 + 1
    THEN DigitsStr(x.ds) \o StrOf(zeros(x.e10 + 1 - Len(x.ds)))
    ELSE DigitsStr(SubSeq(x.ds, 1, x.e10 + 1)) \o "."
         \o DigitsStr(SubSeq(x.ds, x.e10 + 2, Len(x.ds)))

(* The number a literal writes, as String writes it, and its truthiness;   *)
(* -0 is written 0.  A number of at most 15 digits from 1e-307 up to       *)
(* 1e308 is the only one of so few digits that is read as its double, so   *)
(* String writes it with the digits it has.                                *)
NumberValue(neg, x) ==
    LET sign == IF neg THEN "-" ELSE ""
        \* String(v) and the truthiness of the double v
        Written(v) ==
            IF v.inf THEN JsNumber(sign \o "Infinity", TRUE)
            ELSE IF v.q = <<>> THEN JsNumber("0", FALSE)
            ELSE JsNumber(sign \o NumberText(ShortestDigits(v)), TRUE)
    IN  IF x.ds # <<>> /\ Len(x.ds) <= 15 /\ x.e10 >= 0 - 307 /\ x.e10 <= 307
        THEN JsNumber(sign \o NumberText(x), TRUE)
        ELSE Written(ToDouble(x))

NoValue == [ok |-> FALSE, pos |-> 0, val |-> JsNull]
Parsed(pos, val) == [ok |-> TRUE, pos |-> pos, val |-> val]

\* a JSON number starting at position i
parseNumber(s, i) ==
    LET neg     == At(s, i) = "-"
        a       == IF neg THEN i + 1 ELSE i
        b       == digitsEnd(s, a)
        hasFrac == At(s, b) = "."
        c       == IF hasFrac THEN digitsEnd(s, b + 1) ELSE b
        hasExp  == At(s, c) \in {"e", "E"}
        signed  == hasExp /\ At(s, c + 1) \in {"+", "-"}
        d       == IF ~hasExp THEN c ELSE IF signed THEN c + 2 ELSE c + 1
        e       == IF hasExp THEN digitsEnd(s, d) ELSE c
    IN  IF /\ b > a
           /\ (s[a] = "0" => b = a + 1)
           /\ (hasFrac => c > b + 1)
           /\ (hasExp => e > d)
        THEN Parsed(e, NumberValue(neg,
                                   Literal(SubSeq(s, a, b - 1),
                                           IF hasFrac
                                           THEN SubSeq(s, b + 1, c - 1)
                                           ELSE <<>>,
                                           signed /\ At(s, c + 1) = "-",
                                           IF hasExp THEN SubSeq(s, d, e - 1)
                                           ELSE <<>>)))
        ELSE NoValue

\* \uXXXX stands at position i of s
EscapeAt(s, i) ==
    /\ At(s, i) = "\\" /\ At(s, i + 1) = "u"
    /\ \A k \in 2..5 :
          At(s, i + k) \in Digits \cup {"A", "B", "C", "D", "E", "F",
                                        "a", "b", "c", "d", "e", "f"}

\* the code unit the escape at position i writes
EscapeValue(s, i) == HexValue(StrOf(SubSeq(s, i + 2, i + 5)), 0)

(* The character an escape of two code units writes: the one character    *)
(* above U+FFFF that a high surrogate followed by a low surrogate encode,   *)
(* and otherwise the character of the first code unit alone.  n is the      *)
(* number of characters of the JSON text it takes.                          *)
UnicodeEscape(hi, paired, lo) ==
    IF /\ hi >= 55296 /\ hi <= 56319
       /\ paired /\ lo >= 56320 /\ lo <= 57343
    THEN [n |-> 12,
          c |-> CharOf(65536 + (hi - 55296) * 1024 + (lo - 56320))]
    ELSE [n |-> 6, c |-> CharOf(hi)]

\* the character the escape at position i writes; n = 0 when there is none
Escape(s, i) ==
    LET e == At(s, i + 1)
    IN  IF e \in {"\"", "\\", "/"} THEN [n |-> 2, c |-> e]
        ELSE IF e = "n" THEN [n |-> 2, c |-> "\n"]
        ELSE IF e = "t" THEN [n |-> 2, c |-> "\t"]
        ELSE IF e = "r" THEN [n |-> 2, c |-> "\r"]
        ELSE IF e = "f" THEN [n |-> 2, c |-> "\f"]
        ELSE IF e = "b" THEN [n |-> 2, c |-> "U+0008"]
        ELSE IF ~EscapeAt(s, i) THEN [n |-> 0, c |-> ""]
        ELSE UnicodeEscape(EscapeValue(s, i), EscapeAt(s, i + 6),
                           IF EscapeAt(s, i + 6) THEN EscapeValue(s, i + 6)
                           ELSE 0)

(* The characters of a JSON string up to its closing quote, after acc: a   *)
(* control character ends the parse, a backslash starts an escape, every   *)
(* other character stands for itself.                                      *)
RECURSIVE parseChars(_, _, _)
parseChars(s, i, acc) ==
    LET c    == At(s, i)
        step == IF c = "\\" THEN Escape(s, i) ELSE [n |-> 1, c |-> c]
    IN  IF c = "" THEN NoValue
        ELSE IF c = "\"" THEN Parsed(i + 1, JsString(Text(acc)))
        ELSE IF c \in {"\t", "\n", "\r", "\f"}
                \/ (IsName(c) /\ CodePoint(c) < 32) THEN NoValue
        ELSE IF step.n = 0 THEN NoValue
        ELSE parseChars(s, i + step.n, Append(acc, step.c))

parseString(s, i) ==
    IF At(s, i) = "\"" THEN parseChars(s, i + 1, <<>>) ELSE NoValue

\* a JSON value starting at position i, the elements of an array after
\* items, and the members of an object after props (of two members with
\* one name the later one stays)
RECURSIVE parseValue(_, _), parseElements(_, _, _), parseMembers(_, _, _)
parseValue(s, i) ==
    LET c == At(s, i)
        j == skipSpace(s, i + 1)
    IN  IF c = "{"
        THEN IF At(s, j) = "}" THEN Parsed(j + 1, JsObject(EmptyObj))
             ELSE parseMembers(s, j, EmptyObj)
        ELSE IF c = "["
        THEN IF At(s, j) = "]" THEN Parsed(j + 1, JsArray(<<>>))
             ELSE parseElements(s, j, <<>>)
        ELSE IF c = "\"" THEN parseString(s, i)
        ELSE IF c = "-" \/ c \in Digits THEN parseNumber(s, i)
        ELSE IF WordAt(s, i, "true") THEN Parsed(i + 4, JsBool(TRUE))
        ELSE IF WordAt(s, i, "false") THEN Parsed(i + 5, JsBool(FALSE))
        ELSE IF WordAt(s, i, "null") THEN Parsed(i + 4, JsNull)
        ELSE NoValue

\* after the elements items of an array, at position j: a comma and more
\* elements, or the closing bracket
ElementsAfter(s, j, items) ==
    IF At(s, j) = "," THEN parseElements(s, skipSpace(s, j + 1), items)
    ELSE IF At(s, j) = "]" THEN Parsed(j + 1, JsArray(items))
    ELSE NoValue

\* the element r read after the elements items
ElementRead(s, r, items) ==
    IF ~r.ok THEN NoValue
    ELSE ElementsAfter(s, skipSpace(s, r.pos), Append(items, r.val))

parseElements(s, i, items) == ElementRead(s, parseValue(s, i), items)

\* after the members props of an object, at position m: a comma and more
\* members, or the closing brace
MembersAfter(s, m, props) ==
    IF At(s, m) = "," THEN parseMembers(s, skipSpace(s, m + 1), props)
    ELSE IF At(s, m) = "}" THEN Parsed(m + 1, JsObject(props))
    ELSE NoValue

\* the value r read for the name k after the members props
MemberRead(s, k, r, props) ==
    IF ~r.ok THEN NoValue
    ELSE MembersAfter(s, skipSpace(s, r.pos), (k.val.text :> r.val) @@ props)

\* the name k read, with the colon expected at position j
NameRead(s, k, j, props) ==
    IF ~k.ok \/ At(s, j) # ":" THEN NoValue
    ELSE MemberRead(s, k, parseValue(s, skipSpace(s, j + 1)), props)

\* the string k read where the name of a member is expected
KeyRead(s, k, props) == NameRead(s, k, skipSpace(s, k.pos), props)

parseMembers(s, i, props) == KeyRead(s, parseString(s, i), props)

\* the value r read from the whole of s: nothing but white space may follow
WholeValue(s, r) ==
    IF r.ok /\ skipSpace(s, r.pos) = Len(s) + 1
    THEN [ok |-> TRUE, value |-> r.val]
    ELSE [ok |-> FALSE, value |-> JsNull]

\* JSON.parse of a sequence of characters: ok is false when it throws a
\* SyntaxError
parseJSON(s) == WholeValue(s, parseValue(s, skipSpace(s, 1)))

\* JSON.parse(text)
JSONparse(text) == parseJSON(Chars(text))

\* xhr.responseText
ResponseTexts ==
    { "", "Not Found", "null", "{}", "[]", "true", "0", "\"text\"",
      "{\"message\":\"Bad email\"}",
      "{\"message\":\"\"}",
      "{\"message\":0}",
      "{\"message\":5}",
      "{\"message\":{\"toString\":1}}",
      "{\"message\":\"Bad email\"" }

\* the responses jQuery hands to the error callback.  A request without
\* response (status 0) has no body.  Status 204 and 304 are successes
\* whatever the body; any other status from 200 to 299 is a success when
\* its body is JSON, and comes here (parsererror) when it is not.  Every
\* other status comes here with any body.
IsFailure(st, text) ==
    IF st = 0 THEN text = ""
    ELSE IF st = 204 \/ st = 304 THEN FALSE
    ELSE IF st >= 200 /\ st < 300 THEN ~JSONparse(text).ok
    ELSE TRUE

\* the failed responses of Statuses and ResponseTexts
AllFailures ==
    {xhr \in {[status |-> st, responseText |-> text] :
                 st \in Statuses, text \in ResponseTexts} :
        IsFailure(xhr.status, xhr.responseText)}

\* the failed responses the requests of a page meet: every one on the event
\* list, and on a page with a form no response at all and one whose message
\* cannot be written as text
Failures(p) ==
    IF p.form = "none" THEN AllFailures
    ELSE {[status |-> 0, responseText |-> ""],
          [status |-> 400,
           responseText |-> "{\"message\":{\"toString\":1}}"]}

----------------------------------------------------------------------------
(* handleFormErrors and handleAjaxError *)

\* the is-invalid flags after handleFormErrors
ErrorFlagsReplace(form, response, inv) ==
    IF Has(response, "errors")
    THEN DOMAIN response.errors \cap FieldSet(form)
    ELSE inv

ErrorFlags(form, response, inv) ==
    IF Has(response, "errors")
    THEN inv \cup (DOMAIN response.errors \cap FieldSet(form))
    ELSE inv

\* the texts of the feedback slots after handleFormErrors
ErrorFeedback(form, response, fb) ==
    IF Has(response, "errors")
    THEN [f \in DOMAIN fb |->
            IF f \in DOMAIN response.errors THEN response.errors[f] ELSE fb[f]]
    ELSE fb

\* response.message || 'Form submission failed'
ErrorMessage(response) ==
    IF TruthyProp(response, "message") THEN response.message
    ELSE "Form submission failed"

\* the switch on xhr.status
StatusMessage(status) ==
    CASE status = 400 -> "Bad request. Please check your input."
      [] status = 401 -> "Unauthorized. Please log in."
      [] status = 403 -> "Forbidden. You do not have permission."
      [] status = 404 -> "Resource not found."
      [] status = 500 -> "Server error. Please try again later."
      [] OTHER        -> "An unexpected error occurred."

(* the value handleAjaxError notifies: the status text, replaced by        *)
(* response.message when the body is JSON and that is truthy.  Reading     *)
(* .message of null throws inside the try block like a SyntaxError does;   *)
(* a boolean, a number, a string and an array have no such property.       *)
\* response.message when the parsed body has a truthy one, and else the
\* errorMessage the switch has chosen
MessageOr(parsed, errorMessage) ==
    IF /\ parsed.ok
       /\ parsed.value.kind = "object"
       /\ Has(parsed.value.props, "message")
       /\ parsed.value.props["message"].truthy
    THEN parsed.value.props["message"]
    ELSE JsString(errorMessage)

AjaxErrorMessage(xhr) ==
    MessageOr(JSONparse(xhr.responseText), StatusMessage(xhr.status))

(* showToastNotification(type, message) for a message that is no string:   *)
(* the template of the toast converts it, and when that throws no toast is *)
(* made and the exception leaves the caller                                *)
showToastNotification(type, message) ==
    IF message.throws THEN [toasts |-> <<>>, thrown |-> TRUE]
    ELSE [toasts |-> <<Toast(type, message.text)>>, thrown |-> FALSE]

\* the record of a handler run e that ends in the call shown of
\* showToastNotification
EndingIn(e, shown) ==
    [e EXCEPT !.toasts = shown.toasts, !.thrown = shown.thrown]

\* the error callback, the same closure body in all five $.ajax calls
ajaxError(i, xhr) ==
    /\ i \in 1..Len(inflight)
    /\ showLoadingAnimation(FALSE)
    /\ inflight' = Remove(inflight, i)
    /\ ev' = EndingIn(Ev("error", "transport", <<>>, <<FALSE>>, <<>>, <<>>,
                          FALSE, inflight[i].op, xhr),
                       showToastNotification("error", AjaxErrorMessage(xhr)))
    /\ UNCHANGED <<page, csrfToken, values, invalid, feedback, fragments,
                   modal>>

\* the else branch of a success callback: handleFormErrors(form, response)
FormErrorsBranchResets(form, i, response) ==
    /\ invalid' = ErrorFlags(form, response, invalid)
    /\ feedback' = ErrorFeedback(form, response, feedback)
    /\ ev' = Ev("success", "failure", <<Toast("error", ErrorMessage(response))>>,
                <<FALSE>>, <<>>, <<>>, FALSE, inflight[i].op, response)
    /\ values' = ResetValues(form)
    /\ UNCHANGED fragments

FormErrorsBranch(form, i, response) ==
    /\ invalid' = ErrorFlags(form, response, invalid)
    /\ feedback' = ErrorFeedback(form, response, feedback)
    /\ ev' = Ev("success", "failure", <<Toast("error", ErrorMessage(response))>>,
                <<FALSE>>, <<>>, <<>>, FALSE, inflight[i].op, response)
    /\ UNCHANGED <<values, fragments>>

----------------------------------------------------------------------------
(* The confirmation renderers *)

\* showRegistrationConfirmation(data): the html put in #registration-confirmation
showRegistrationConfirmation(data) ==
    [registration_id |-> Str(data, "registration_id"),
     event_name |-> Str(data, "event_name"),
     event_date |-> Str(data, "event_date"),
     confirmation_email |-> Str(data, "confirmation_email")]

\* showVolunteerWelcome(data): the html put in #volunteer-welcome
showVolunteerWelcome(data) ==
    [name |-> Str(data, "name"),
     volunteer_id |-> Str(data, "volunteer_id"),
     next_steps |-> IF TruthyProp(data, "next_steps")
                    THEN <<data.next_steps>> ELSE <<>>]

\* showDonationReceipt(data): the html put in #donation-receipt
showDonationReceipt(data) ==
    [transaction_id |-> Str(data, "transaction_id"),
     amount |-> Str(data, "amount"),
     currency |-> Str(data, "currency"),
     receipt_url |-> Str(data, "receipt_url")]

\* progress.percentage || 0
Percentage(progress) ==
    IF Has(progress, "percentage") THEN progress.percentage ELSE 0

\* the progress bar after css('width'), attr('aria-valuenow') and text()
ProgressBar(progress) ==
    [width |-> NatStr(Percentage(progress)) \o "%",
     ariaValuenow |-> Percentage(progress),
     text |-> NatStr(Percentage(progress)) \o "%"]

(* updateDonationProgress(progress): the fragments it leaves, and whether   *)
(* it threw.  progress.current.toLocaleString() and                       *)
(* progress.goal.toLocaleString() are evaluated inside the branch of a     *)
(* present progress bar, each before the text it is written to, and        *)
(* reading toLocaleString of an absent property throws a TypeError.        *)
updateDonationProgress(progress, frags, hasBar, locale) ==
    IF ~hasBar THEN [fragments |-> frags, thrown |-> FALSE]
    ELSE LET f1 == [frags EXCEPT !.progress = ProgressBar(progress)]
         IN  IF ~Has(progress, "current")
             THEN [fragments |-> f1, thrown |-> TRUE]
             ELSE LET f2 == [f1 EXCEPT !.campaignCurrent =
                                   "$" \o toLocaleString(progress.current, locale)]
                  IN  IF ~Has(progress, "goal")
                      THEN [fragments |-> f2, thrown |-> TRUE]
                      ELSE [fragments |->
                               [f2 EXCEPT !.campaignGoal =
                                   "$" \o toLocaleString(progress.goal, locale)],
                            thrown |-> FALSE]

----------------------------------------------------------------------------
(* The success callbacks *)

\* what every callback does first: the request is over, the spinner is
\* told to fade out
CompleteCounted(i, op) ==
    /\ i \in 1..Len(inflight)
    /\ inflight[i].op = op
    /\ inflight' = Remove(inflight, i)
    /\ IF Len(inflight) = 1 THEN showLoadingAnimation(FALSE)
       ELSE UNCHANGED spinner
    /\ UNCHANGED <<page, csrfToken, modal>>

Complete(i, op) ==
    /\ i \in 1..Len(inflight)
    /\ inflight[i].op = op
    /\ inflight' = Remove(inflight, i)
    /\ showLoadingAnimation(FALSE)
    /\ UNCHANGED <<page, csrfToken, modal>>

\* the arguments of $(document).trigger(name, [response.data])
Trigger(name, response) == [name |-> name, args |-> <<Prop(response, "data")>>]

\* success callback of handleFormSubmission
formSubmissionSuccess(i, response) ==
    /\ Complete(i, "contact")
    /\ IF response.success
       THEN /\ values' = ResetValues("contact")
            /\ invalid' = {}
            /\ ev' = Ev("success", "success",
                        <<Toast("success",
                                IF TruthyProp(response, "message")
                                THEN response.message
                                ELSE "Form submitted successfully")>>,
                        <<FALSE>>, <<>>, <<Trigger("formSubmitted", response)>>,
                        FALSE, inflight[i].op, response)
            /\ UNCHANGED <<feedback, fragments>>
       ELSE FormErrorsBranch("contact", i, response)

\* success callback of handleEventRegistration
eventRegistrationSuccess(i, response) ==
    /\ Complete(i, "registration")
    /\ IF response.success
       THEN /\ values' = ResetValues("registration")
            /\ fragments' =
                  IF Has(response, "data")
                     /\ TruthyProp(response.data, "registration_id")
                  THEN [fragments EXCEPT
                          !.regConf = showRegistrationConfirmation(response.data)]
                  ELSE fragments
            /\ ev' = Ev("success", "success",
                        <<Toast("success", Str(response, "message"))>>,
                        <<FALSE>>, <<>>, <<Trigger("eventRegistered", response)>>,
                        FALSE, inflight[i].op, response)
            /\ UNCHANGED <<invalid, feedback>>
       ELSE FormErrorsBranch("registration", i, response)

\* success callback of handleVolunteerSignUp
volunteerSignUpSuccess(i, response) ==
    /\ Complete(i, "volunteer")
    /\ IF response.success
       THEN /\ values' = ResetValues("volunteer")
            /\ fragments' =
                  IF Has(response, "data")
                  THEN [fragments EXCEPT
                          !.welcome = showVolunteerWelcome(response.data)]
                  ELSE fragments
            /\ ev' = Ev("success", "success",
                        <<Toast("success", Str(response, "message"))>>,
                        <<FALSE>>, <<>>, <<Trigger("volunteerSignedUp", response)>>,
                        FALSE, inflight[i].op, response)
            /\ UNCHANGED <<invalid, feedback>>
       ELSE FormErrorsBranch("volunteer", i, response)

\* success callback of handleDonationProcessing
donationSuccess(i, response) ==
    /\ Complete(i, "donation")
    /\ IF response.success
       THEN LET data == Prop(response, "data")
                upd  == IF Has(response, "data") /\ Has(data, "campaign_progress")
                        THEN updateDonationProgress(data.campaign_progress,
                                                    fragments, page.progressBar,
                                                    page.locale)
                        ELSE [fragments |-> fragments, thrown |-> FALSE]
                rec  == IF ~upd.thrown /\ Has(response, "data")
                           /\ TruthyProp(data, "receipt_url")
                        THEN [upd.fragments EXCEPT
                                !.receipt = showDonationReceipt(data)]
                        ELSE upd.fragments
            IN  /\ values' = ResetValues("donation")
                /\ fragments' = rec
                /\ ev' = Ev("success", "success",
                            <<Toast("success", Str(response, "message"))>>,
                            <<FALSE>>, <<>>,
                            IF upd.thrown THEN <<>>
                            ELSE <<Trigger("donationProcessed", response)>>,
                            upd.thrown, inflight[i].op, response)
                /\ UNCHANGED <<invalid, feedback>>
       ELSE FormErrorsBranch("donation", i, response)

----------------------------------------------------------------------------
(* The event-detail fetch *)

\* the clicks explored on a page, each the data-event-id attribute of the
\* clicked element (none, or its text): seven texts and no attribute on the
\* event list, and on a page that has a form as well the identifier 7 and
\* the attribute whose conversion to text throws
EventClicks(p) ==
    IF ~Sampled(p)
    THEN Opt("event-id", {Chars("7"), Chars("0"), Chars(""), Chars("null"),
                          Chars("NaN"), Chars("[7]"),
                          Chars("{\"toString\":1}")})
    ELSE {"event-id" :> Chars("7"), "event-id" :> Chars("{\"toString\":1}")}

\* /^(?:\{[\w\W]*\}|\[[\w\W]*\])$/ of jQuery's data module
rbrace(s) ==
    /\ Len(s) >= 2
    /\ \/ s[1] = "{" /\ s[Len(s)] = "}"
       \/ s[1] = "[" /\ s[Len(s)] = "]"

\* +data + "" === data: the text is what String gives for the number it
\* writes
Writes(r, s) == r.ok /\ r.pos = Len(s) + 1 /\ r.val.text = StrOf(s)

IsNumberText(s) ==
    \/ StrOf(s) \in {"NaN", "Infinity", "-Infinity"}
    \/ Writes(parseNumber(s, 1), s)

(* getData of jQuery, which .data() applies to the text of a data-         *)
(* attribute: the words true, false and null become their values, the text *)
(* of a number becomes the number, a text in braces or brackets the value  *)
(* JSON.parse gives (and stays itself when that throws), and every other   *)
(* text stays a string                                                     *)
\* the value JSON.parse gave, and data itself when it threw
ValueOr(parsed, data) == IF parsed.ok THEN parsed.value ELSE data

getData(s) ==
    IF s = Chars("true") THEN JsBool(TRUE)
    ELSE IF s = Chars("false") THEN JsBool(FALSE)
    ELSE IF s = Chars("null") THEN JsNull
    ELSE IF IsNumberText(s)
    THEN JsNumber(StrOf(s), s \notin {Chars("0"), Chars("NaN")})
    ELSE IF rbrace(s) THEN ValueOr(parseJSON(s), JsString(Text(s)))
    ELSE JsString(Text(s))

\* !eventId for $(el).data('event-id'), which is undefined without the
\* attribute
EventIdFalsy(attr) ==
    \/ ~Has(attr, "event-id")
    \/ ~getData(attr["event-id"]).truthy

\* the $.ajax call of loadEventDetails: the url holds String(eventId), and
\* no X-CSRFToken header is set
GetRequest(attr) ==
    [type |-> "GET",
     url |-> "/api/events/" \o getData(attr["event-id"]).text \o "/",
     dataType |-> "json", headers |-> EmptyObj, op |-> "event"]

(* loadEventDetails(e): without identifier it notifies and returns; with   *)
(* one it shows the loading indicator and then builds the request, and     *)
(* when the url template throws the indicator stays shown and no request   *)
(* is made                                                                 *)
loadEventDetails(attr) ==
    /\ page.eventButtons
    /\ IF EventIdFalsy(attr)
       THEN /\ ev' = Ev("loadEventDetails", "noid",
                        <<Toast("error", "Event ID not found")>>,
                        <<>>, <<>>, <<>>, FALSE, NoReq, attr)
            /\ UNCHANGED <<spinner, inflight>>
       ELSE IF getData(attr["event-id"]).throws
       THEN /\ showLoadingAnimation(TRUE)
            /\ ev' = Ev("loadEventDetails", "threw", <<>>, <<TRUE>>,
                        <<>>, <<>>, TRUE, NoReq, attr)
            /\ UNCHANGED inflight
       ELSE /\ Len(inflight) < MaxInFlight
            /\ showLoadingAnimation(TRUE)
            /\ inflight' = Append(inflight, GetRequest(attr))
            /\ ev' = Ev("loadEventDetails", "sent", <<>>, <<TRUE>>,
                        <<inflight'[Len(inflight')]>>, <<>>, FALSE, NoReq, attr)
    /\ UNCHANGED <<page, csrfToken, values, invalid, feedback, fragments, modal>>

\* displayEventModal(eventData): the title and body of the modal, shown;
\* .text(undefined) reads the title instead of writing it, so data without
\* title leaves the title the modal had
displayEventModal(eventData) ==
    [shown |-> TRUE,
     title |-> IF Has(eventData, "title") THEN eventData.title ELSE modal.title,
     body  |-> [image |-> IF TruthyProp(eventData, "image_url")
                          THEN <<eventData.image_url, Str(eventData, "title")>>
                          ELSE <<>>,
                description |-> Str(eventData, "description"),
                date |-> Str(eventData, "date"),
                time |-> IF TruthyProp(eventData, "time")
                         THEN <<eventData.time>> ELSE <<>>,
                location |-> IF TruthyProp(eventData, "location")
                             THEN <<eventData.location>> ELSE <<>>,
                organizer |-> IF TruthyProp(eventData, "organizer")
                              THEN <<eventData.organizer>> ELSE <<>>,
                availability |-> IF TruthyProp(eventData, "capacity")
                                 THEN <<IF TruthyProp(eventData, "registered")
                                        THEN eventData.registered ELSE "0",
                                        eventData.capacity>>
                                 ELSE <<>>]]

\* success callback of loadEventDetails
loadEventDetailsSuccess(i, response) ==
    /\ i \in 1..Len(inflight)
    /\ inflight[i].op = "event"
    /\ inflight' = Remove(inflight, i)
    /\ showLoadingAnimation(FALSE)
    /\ IF response.success /\ Has(response, "data")
       THEN /\ modal' = displayEventModal(response.data)
            /\ ev' = Ev("success", "modal", <<>>, <<FALSE>>, <<>>, <<>>, FALSE,
                        inflight[i].op, response)
       ELSE /\ modal' = modal
            /\ ev' = Ev("success", "failure",
                        <<Toast("error",
                                IF TruthyProp(response, "message")
                                THEN response.message
                                ELSE "Failed to load event details")>>,
                        <<FALSE>>, <<>>, <<>>, FALSE, inflight[i].op, response)
    /\ UNCHANGED <<page, csrfToken, values, invalid, feedback, fragments>>

(* A success callback given no envelope: jQuery hands it undefined for a   *)
(* response without content (status 204 or 304) and null for the body      *)
(* null.  Each of the five callbacks hides the loading indicator and then  *)
(* reads response.success, which throws a TypeError.                       *)
successWithoutEnvelope(i, response) ==
    /\ i \in 1..Len(inflight)
    /\ Complete(i, inflight[i].op)
    /\ ev' = Ev("successWithoutEnvelope", "threw", <<>>, <<FALSE>>, <<>>, <<>>,
                TRUE, inflight[i].op, response)
    /\ UNCHANGED <<values, invalid, feedback, fragments>>

----------------------------------------------------------------------------
(* The specification *)

Next ==
    \/ \E f \in FieldSet(page.form) : \E v \in Typed(page, f) : Edit(f, v)
    \/ handleFormSubmission
    \/ handleEventRegistration
    \/ handleVolunteerSignUp
    \/ handleDonationProcessing
    \/ \E attr \in EventClicks(page) : loadEventDetails(attr)
    \/ \E i \in 1..Len(inflight) :
          \E response \in Answers(page, "contact") : formSubmissionSuccess(i, response)
    \/ \E i \in 1..Len(inflight) :
          \E response \in Answers(page, "registration") :
              eventRegistrationSuccess(i, response)
    \/ \E i \in 1..Len(inflight) :
          \E response \in Answers(page, "volunteer") :
              volunteerSignUpSuccess(i, response)
    \/ \E i \in 1..Len(inflight) :
          \E response \in Answers(page, "donation") : donationSuccess(i, response)
    \/ \E i \in 1..Len(inflight) :
          \E response \in Answers(page, "event") :
              loadEventDetailsSuccess(i, response)
    \/ \E i \in 1..Len(inflight) :
          \E response \in NoEnvelopes(page) : successWithoutEnvelope(i, response)
    \/ \E i \in 1..Len(inflight) :
          \E xhr \in Failures(page) : ajaxError(i, xhr)
    \/ fadeEnd

Spec == Init /\ [][Next]_vars

----------------------------------------------------------------------------
(* The validator on its own: validateForm and the submit handler of
   #contact-form applied to the markups of ContactMarkups, for every
   combination of typed values and of flags left by earlier runs *)

\* what the controls of the explored markups may hold
ValidatorValues(f) ==
    CASE f = "email" ->
            {<<>>, <<" ">>,
             <<"a", "@", "b", ".", "c", "o">>,
             <<" ", "a", "@", "b", ".", "c", "o", " ">>,
             <<"a", "b">>,
             <<"a", "@", "b">>,
             <<"a", ".", "b">>,
             <<"a", "@", ".", "b">>,
             <<"a", " ", "b", "@", "c", ".", "d">>,
             <<"a", "@", "b", "@", "c", ".", "d">>}
      [] f = "phone" ->
            {<<>>,
             <<"+", "1", " ", "(", "5", "5", "5", ")", " ", "1", "2", "3",
               "-", "4", "5", "6", "7">>,
             <<"5", "a">>,
             <<"5", "5", "5", ".", "1">>}
      [] f = "name"  -> {<<>>, <<" ">>, <<"\f">>, <<"A", "l">>}

InitValidate ==
    /\ page \in {[form |-> m, progressBar |-> FALSE, eventButtons |-> FALSE,
                  cookie |-> << <<"csrftoken", "tokC">> >>, meta |-> EmptyObj,
                  locale |-> "en-US"] :
                    m \in ContactMarkups}
    /\ csrfToken = getCSRFToken(page.cookie, page.meta)
    /\ values \in [FieldSet(page.form) -> UNION {ValidatorValues(f) : f \in FieldSet(page.form)}]
    /\ \A f \in FieldSet(page.form) : values[f] \in ValidatorValues(f)
    /\ invalid \in SUBSET FieldSet(page.form)
    /\ feedback = [f \in {g \in FieldSet(page.form) : HasFeedback(page.form, g)} |-> ""]
    /\ fragments = NoFragments
    /\ spinner = "hidden"
    /\ modal = [shown |-> FALSE, title |-> "", body |-> EmptyObj]
    /\ inflight = <<>>
    /\ ev = Idle("constructor")

\* a call of validateForm on the form of the page
validateFormCall ==
    LET validation == validateForm(page.form, values, invalid)
    IN  /\ invalid' = validation.invalid
        /\ ev' = Ev("validateForm",
                    IF validation.isValid THEN "valid" ELSE "invalid",
                    <<>>, <<>>, <<>>, <<>>, FALSE, NoReq,
                    [isValid |-> validation.isValid, errors |-> validation.errors])
        /\ UNCHANGED <<page, csrfToken, values, feedback, fragments, spinner,
                       modal, inflight>>

\* a submit of #contact-form in one of the explored markups
submitContactMarkup ==
    /\ page.form \in ContactMarkups
    /\ ValidateAndPost(page.form, "handleFormSubmission")

NextValidate ==
    \/ validateFormCall
    \/ submitContactMarkup

SpecValidate == InitValidate /\ [][NextValidate]_vars

----------------------------------------------------------------------------
(* Properties *)

SubmitHandlers ==
    {"handleFormSubmission", "handleEventRegistration",
     "handleVolunteerSignUp", "handleDonationProcessing"}

\* the last step ran a submit handler
Submitted == ev.handler \in SubmitHandlers

\* the last step ran the success callback of a form with a success = true
\* envelope, or with a success = false one
SuccessEnvelopeProcessed ==
    ev.handler = "success" /\ ev.op \in Forms /\ ev.outcome = "success"

FailureEnvelopeProcessed ==
    ev.handler = "success" /\ ev.op \in Forms /\ ev.outcome = "failure"

\* a rule of the form validator that the value v of the field f violates
RuleViolated(f, v) ==
    \/ trim(v) = <<>>
    \/ FieldType(f) = "email" /\ ~emailRegex(trim(v))
    \/ FieldType(f) = "tel" /\ ~phoneRegex(trim(v))

SomeRequiredFieldViolates ==
    \E f \in FieldSet(page.form) :
        Required(page.form, f) /\ RuleViolated(f, values[f])

\* C1: a submit of a form with a required field that is empty after
\* trimming, or that violates another validation rule, issues no request
\* and does not command the loading indicator to show.
C1_InvalidSubmitSendsNothing ==
    (Submitted /\ SomeRequiredFieldViolates)
        => (ev.ajax = <<>> /\ ev.spinnerCmds = <<>>)

\* C1 happens: a submit is rejected for a field holding only white space
\* while an earlier request of the same form is still in flight
C1_Witness ==
    /\ Submitted
    /\ \E f \in FieldSet(page.form) :
          Required(page.form, f) /\ values[f] # <<>> /\ trim(values[f]) = <<>>
    /\ inflight # <<>>

\* the amounts explored that are empty or that are numerals of a number
\* that is at most 0 as a double: 0, -5, and 1e-400, which lies below half
\* the least positive double and so is read as 0
NotPositiveAmounts ==
    {<<>>, <<"0">>, <<"-", "5">>, <<"1", "e", "-", "4", "0", "0">>}

\* the amount is empty or parses to a number that is at most 0
AmountEmptyOrNotPositive(v) == v \in NotPositiveAmounts

\* C2: a donation submit whose amount is empty or parses to a number <= 0
\* notifies exactly (error, "Please enter a valid donation amount"), issues
\* no request and does not show the loading indicator, whatever the other
\* required fields hold.
C2_BadAmountRejectedLocally ==
    (ev.handler = "handleDonationProcessing"
        /\ AmountEmptyOrNotPositive(values["amount"]))
    => /\ ev.toasts = <<Toast("error", "Please enter a valid donation amount")>>
       /\ ev.ajax = <<>>
       /\ ev.spinnerCmds = <<>>

\* C2 happens: the amount is -5 and the required email is empty as well
C2_Witness ==
    /\ ev.handler = "handleDonationProcessing"
    /\ values["amount"] = <<"-", "5">>
    /\ values["email"] = <<>>

\* C3: right after a success = true envelope has been processed, the fields
\* of the form hold their reset values and no field carries the invalid
\* flag.
C3_SuccessResetsAndClearsFlags ==
    SuccessEnvelopeProcessed
        => (values = ResetValues(page.form) /\ invalid = {})

\* C4 as claimed: right after a success = false envelope with errors has
\* been processed, the flagged fields are exactly the fields named by the
\* keys of errors, and their feedback slots hold the error strings.
C4_FlagsAreExactlyErrorKeys ==
    (FailureEnvelopeProcessed /\ Has(ev.arg, "errors"))
    => /\ invalid = DOMAIN ev.arg.errors \cap FieldSet(page.form)
       /\ \A f \in invalid \cap DOMAIN feedback : feedback[f] = ev.arg.errors[f]

\* C4 amended: processing a success = false envelope with errors adds to
\* the flagged fields the fields of the form named by the keys of errors
\* and clears no flag; the feedback slot of each such field, when it
\* exists, takes the error string of its key, and the other slots keep
\* their text.
C4_FlagsGrowByErrorKeys ==
    [][(FailureEnvelopeProcessed' /\ Has(ev'.arg, "errors"))
        => /\ invalid' = invalid \cup (DOMAIN ev'.arg.errors \cap FieldSet(page.form))
           /\ \A f \in DOMAIN feedback' :
                 feedback'[f] = IF f \in DOMAIN ev'.arg.errors
                                THEN ev'.arg.errors[f] ELSE feedback[f]]_vars

\* C4 happens: an envelope with errors has been processed, a slot holds the
\* text it gave, and a field that is no key of errors is still flagged
C4_Witness ==
    /\ FailureEnvelopeProcessed
    /\ Has(ev.arg, "errors")
    /\ \E f \in DOMAIN feedback \cap DOMAIN ev.arg.errors :
          feedback[f] = ev.arg.errors[f]
    /\ invalid \ DOMAIN ev.arg.errors # {}

\* C5: processing a success = false envelope changes no field value and no
\* confirmation fragment.
C5_FailureKeepsValuesAndFragments ==
    [][FailureEnvelopeProcessed' => (values' = values /\ fragments' = fragments)]_vars

\* C5 happens: a failure envelope has been processed on a form whose fields
\* hold typed values and whose page already shows a confirmation fragment
C5_Witness ==
    /\ FailureEnvelopeProcessed
    /\ \A f \in FieldSet(page.form) : values[f] # DefaultValue(page.form, f)
    /\ fragments # NoFragments

\* the text C6 gives for a status
C6_StatusText(status) ==
    IF status = 400 THEN "Bad request. Please check your input."
    ELSE IF status = 401 THEN "Unauthorized. Please log in."
    ELSE IF status = 403 THEN "Forbidden. You do not have permission."
    ELSE IF status = 404 THEN "Resource not found."
    ELSE IF status = 500 THEN "Server error. Please try again later."
    ELSE "An unexpected error occurred."

\* the body is JSON with a message field whose value is truthy
C6_HasMessage(text) ==
    /\ JSONparse(text).ok
    /\ JSONparse(text).value.kind = "object"
    /\ Has(JSONparse(text).value.props, "message")
    /\ JSONparse(text).value.props["message"].truthy

\* C6: a transport failure shows exactly one error notification; its
\* message is the message field of the body, written as text, when the
\* body is JSON with a truthy message, and the text of the status
\* otherwise.
C6_AjaxErrorMessage ==
    ev.handler = "error"
    => ev.toasts =
         <<Toast("error",
                 IF C6_HasMessage(ev.arg.responseText)
                 THEN JSONparse(ev.arg.responseText).value.props["message"].text
                 ELSE C6_StatusText(ev.arg.status))>>

\* C7: the error callback of a submission commands the loading indicator
\* to hide (fadeOut: it stays hidden or starts to fade out),
\* shows one error notification and changes nothing else: values, flags,
\* feedback slots, fragments and the modal are as before, and no request
\* is issued.
C7_TransportFailureIsTerminal ==
    [][(ev'.handler = "error" /\ ev'.op \in Forms)
        => /\ ev'.spinnerCmds = <<FALSE>>
           /\ spinner' = fadeOut(spinner)
           /\ Len(ev'.toasts) = 1
           /\ ev'.toasts[1].type = "error"
           /\ ev'.ajax = <<>>
           /\ Len(inflight') = Len(inflight) - 1
           /\ values' = values
           /\ invalid' = invalid
           /\ feedback' = feedback
           /\ fragments' = fragments
           /\ modal' = modal]_vars

\* C8 as claimed: every request in flight carries the token resolved at
\* construction in its X-CSRFToken header.
C8_EveryRequestCarriesToken ==
    \A i \in 1..Len(inflight) :
        /\ Has(inflight[i].headers, "X-CSRFToken")
        /\ inflight[i].headers["X-CSRFToken"] = csrfToken

\* C8 amended: the token is the one getCSRFToken resolved at construction
\* (cookie first, then meta tag, then the empty string) and never
\* changes; every form POST carries it in its X-CSRFToken header, and the
\* event-detail GET carries no such header.
C8_EveryPostCarriesToken ==
    [][/\ csrfToken' = csrfToken
       /\ csrfToken' = getCSRFToken(page'.cookie, page'.meta)
       /\ \A i \in 1..Len(inflight') :
            IF inflight'[i].type = "POST"
            THEN inflight'[i].headers = ("X-CSRFToken" :> csrfToken)
            ELSE inflight'[i].headers = EmptyObj]_vars

\* C8 happens: two POSTs in flight carry the token taken from the meta tag
C8_Witness ==
    /\ Len(inflight) = 2
    /\ csrfToken = "tokM"
    /\ \A i \in 1..2 :
          inflight[i].type = "POST" /\ inflight[i].headers["X-CSRFToken"] = "tokM"

\* C9: processing a success = true envelope never throws, and a donation
\* envelope whose data has a receipt_url gets its receipt rendered and its
\* completion signal published, whatever campaign_progress lacks.
C9_SuccessBranchRunsToItsEnd ==
    SuccessEnvelopeProcessed
    => /\ ~ev.thrown
       /\ (ev.op = "donation" /\ Has(ev.arg, "data")
              /\ Has(ev.arg.data, "receipt_url"))
          => /\ fragments.receipt = showDonationReceipt(ev.arg.data)
             /\ Len(ev.triggers) = 1

\* C10: every run of a submit handler that rejects the form shows exactly
\* one notification, every run that posts it shows none, every completion
\* callback of a form request shows exactly one, and no run throws.
C10_OneNotificationAndNoThrow ==
    /\ ~ev.thrown
    /\ (Submitted /\ ev.ajax = <<>>) => Len(ev.toasts) = 1
    /\ (Submitted /\ ev.ajax # <<>>) => Len(ev.toasts) = 0
    /\ (ev.handler \in {"success", "error"} /\ ev.op \in Forms)
          => Len(ev.toasts) = 1

\* the shape local@domain.tld, stated on the characters: no whitespace,
\* exactly one "@", not at the start, and a "." in the part after it that
\* is neither its first nor its last character
C11_AtPositions(s) == {k \in 1..Len(s) : s[k] = "@"}

C11_EmailShape(s) ==
    /\ \A k \in 1..Len(s) : ~IsSpace(s[k])
    /\ Cardinality(C11_AtPositions(s)) = 1
    /\ \A a \in C11_AtPositions(s) :
          a > 1 /\ \E d \in (a + 2)..(Len(s) - 1) : s[d] = "."

C11_PhoneShape(s) ==
    \A k \in 1..Len(s) :
        s[k] \in Digits \cup {"-", "+", "(", ")"} \/ IsSpace(s[k])

\* the violations the rules give for the value v of the field f
C11_Violations(f, v) ==
    IF trim(v) = <<>> THEN <<f \o " is required">>
    ELSE IF FieldType(f) = "email" /\ ~C11_EmailShape(trim(v))
    THEN <<f \o " must be a valid email address">>
    ELSE IF FieldType(f) = "tel" /\ ~C11_PhoneShape(trim(v))
    THEN <<f \o " must be a valid phone number">>
    ELSE <<>>

\* the violations of the required fields from position i on, in document
\* order
RECURSIVE C11_ExpectedFrom(_)
C11_ExpectedFrom(i) ==
    IF i > Len(FormFields(page.form)) THEN <<>>
    ELSE LET f == FormFields(page.form)[i]
         IN  (IF Required(page.form, f) THEN C11_Violations(f, values[f])
              ELSE <<>>) \o C11_ExpectedFrom(i + 1)

\* C11: validateForm returns, for the required fields only and in document
\* order, "<field> is required" for a value empty after trimming, "<field>
\* must be a valid email address" for a non-empty value of an email field
\* that is not local@domain.tld and "<field> must be a valid phone number"
\* for a non-empty value of a tel field with a character other than digits,
\* whitespace, "-", "+", "(" and ")"; isValid is true exactly when there is
\* no violation; fields not marked required contribute nothing
C11_ValidatorComputesViolations ==
    ev.handler = "validateForm" =>
        /\ ev.arg.errors = C11_ExpectedFrom(1)
        /\ ev.arg.isValid <=> ev.arg.errors = <<>>

\* validateForm has run on a form whose required name is blank and whose
\* optional email field holds no email address: one violation
C11_Witness ==
    /\ ev.handler = "validateForm"
    /\ page.form = "contact-optional"
    /\ values["name"] = <<" ">>
    /\ values["email"] = <<"a", "b">>
    /\ ev.arg.errors = <<"name is required">>

\* the value has no "@", or no "." after an "@"
C12_LacksAtOrDot(s) ==
    ~ \E a \in 1..Len(s) : \E d \in (a + 1)..Len(s) : s[a] = "@" /\ s[d] = "."

C12_Letters ==
    {"a", "b", "c", "d", "e", "f", "g", "h", "i", "j", "k", "l", "m", "n",
     "o", "p", "q", "r", "s", "t", "u", "v", "w", "x", "y", "z"}

C12_HasLetter(s) == \E k \in 1..Len(s) : s[k] \in C12_Letters

\* the email field f holds a non-empty value without "@" or without a dot
\* in the domain; the tel field f holds a value with a letter
C12_BadEmail(f) ==
    FieldType(f) = "email" /\ values[f] # <<>> /\ C12_LacksAtOrDot(values[f])

C12_BadTel(f) == FieldType(f) = "tel" /\ C12_HasLetter(values[f])

C12_SampleEmail == <<"a", "@", "b", ".", "c", "o">>

C12_SamplePhone ==
    <<"+", "1", " ", "(", "5", "5", "5", ")", " ", "1", "2", "3", "-", "4",
      "5", "6", "7">>

C12_Errors == {ev.arg.errors[k] : k \in 1..Len(ev.arg.errors)}

\* C12 as stated: a submit of a form with an email field, required or not,
\* holding a non-empty value without "@" or without a dot in the domain, or
\* with a tel field, required or not, holding a value with a letter, fails
\* validation and sends no request
C12_EveryEmailAndTelFieldChecked ==
    (/\ Submitted
     /\ \E f \in FieldSet(page.form) : C12_BadEmail(f) \/ C12_BadTel(f))
    => ev.outcome = "invalid" /\ ev.ajax = <<>>

\* C12: for every required email field a value that is non-empty after
\* trimming and has no "@" or no dot in the domain makes validateForm return
\* the email message and makes a submit send nothing, while a@b.co raises no
\* email message; for every required tel field a value with a letter makes
\* validateForm return the phone message and makes a submit send nothing,
\* while +1 (555) 123-4567 raises no phone message; an email or tel field
\* that is not required raises no message whatever it holds
C12_RequiredEmailAndTelChecked ==
    \A f \in FieldSet(page.form) :
        LET emailMsg == f \o " must be a valid email address"
            telMsg   == f \o " must be a valid phone number"
            bad      == /\ Required(page.form, f)
                        /\ \/ C12_BadEmail(f) /\ trim(values[f]) # <<>>
                           \/ C12_BadTel(f)
        IN  /\ ev.handler = "validateForm" =>
                /\ (Required(page.form, f) /\ C12_BadEmail(f)
                        /\ trim(values[f]) # <<>>)
                    => emailMsg \in C12_Errors /\ ~ev.arg.isValid
                /\ (Required(page.form, f) /\ C12_BadTel(f))
                    => telMsg \in C12_Errors /\ ~ev.arg.isValid
                /\ values[f] = C12_SampleEmail => emailMsg \notin C12_Errors
                /\ values[f] = C12_SamplePhone => telMsg \notin C12_Errors
                /\ ~Required(page.form, f)
                    => emailMsg \notin C12_Errors /\ telMsg \notin C12_Errors
            /\ (Submitted /\ bad) => ev.outcome = "invalid" /\ ev.ajax = <<>>

\* a submit of the markup with every control required was blocked because
\* the email field holds a@b, the other controls holding passing values
C12_Witness ==
    /\ ev.handler = "handleFormSubmission"
    /\ page.form = "contact-full"
    /\ values["email"] = <<"a", "@", "b">>
    /\ values["phone"] = C12_SamplePhone
    /\ values["name"] = <<"A", "l">>
    /\ ev.outcome = "invalid"
    /\ ev.toasts = <<Toast("error", "email must be a valid email address")>>

\* C13: after a success = true envelope of any of the four operations the
\* first notification is a success one whose text is the message of the
\* envelope when it has one and otherwise a default that is neither empty
\* nor undefined
C13_SuccessToastHasText ==
    SuccessEnvelopeProcessed =>
        /\ ev.toasts # <<>>
        /\ ev.toasts[1].type = "success"
        /\ IF TruthyProp(ev.arg, "message")
           THEN ev.toasts[1].message = ev.arg.message
           ELSE ev.toasts[1].message \notin {"", "undefined"}

\* the completion signal of each operation
C14_SignalOf(op) ==
    CASE op = "contact"      -> "formSubmitted"
      [] op = "registration" -> "eventRegistered"
      [] op = "volunteer"    -> "volunteerSignedUp"
      [] op = "donation"     -> "donationProcessed"

\* C14: a callback that processes a success = true envelope publishes
\* exactly one completion signal, the one of its operation, carrying the
\* data of the envelope, and the form is reset when it is published; every
\* other handler or callback run (a local rejection, a success = false
\* envelope, a transport failure) publishes none
C14_OneSignalPerSuccessEnvelope ==
    IF SuccessEnvelopeProcessed
    THEN /\ ev.triggers =
              <<[name |-> C14_SignalOf(ev.op), args |-> <<Prop(ev.arg, "data")>>]>>
         /\ values = ResetValues(page.form)
    ELSE ev.triggers = <<>>

\* the clicked element carries an identifier: a data-event-id attribute
\* that is not empty
C15_IdentifierPresent(attr) == Has(attr, "event-id") /\ attr["event-id"] # <<>>

\* C15: a click on an event-details element whose identifier is present
\* shows the loading indicator and issues exactly one GET to
\* /api/events/{id}/ for that identifier; a click on one without identifier
\* issues no request, commands no loading indicator and notifies (error,
\* "Event ID not found")
C15_GetIffIdentifierPresent ==
    ev.handler = "loadEventDetails" =>
        IF C15_IdentifierPresent(ev.arg)
        THEN /\ Len(ev.ajax) = 1
             /\ ev.ajax[1].type = "GET"
             /\ ev.ajax[1].url = "/api/events/" \o StrOf(ev.arg["event-id"]) \o "/"
             /\ ev.spinnerCmds = <<TRUE>>
             /\ ev.toasts = <<>>
        ELSE /\ ev.ajax = <<>>
             /\ ev.spinnerCmds = <<>>
             /\ ev.toasts = <<Toast("error", "Event ID not found")>>

\* C16: the success callback of the event-detail fetch either renders and
\* shows the modal without an error notification, when the envelope has
\* success = true and data that is not empty, or leaves the modal alone and
\* notifies one error with the message of the server or "Failed to load
\* event details", when success is false or data is missing or empty
C16_ModalOrErrorNotification ==
    (ev.handler = "success" /\ ev.op = "event") =>
        IF ev.arg.success /\ Has(ev.arg, "data") /\ ev.arg.data # EmptyObj
        THEN /\ ev.outcome = "modal"
             /\ modal.shown
             /\ modal.title = ev.arg.data.title
             /\ ev.toasts = <<>>
        ELSE /\ ev.outcome = "failure"
             /\ ev.toasts =
                   <<Toast("error",
                           IF TruthyProp(ev.arg, "message") THEN ev.arg.message
                           ELSE "Failed to load event details")>>

\* C17 as stated: a donation submit with a violated required-field rule
\* leaves the violating fields flagged invalid and notifies one error with
\* the joined violation messages, whatever the amount is
C17_ValidationBeforeAmountGuard ==
    (ev.handler = "handleDonationProcessing" /\ SomeRequiredFieldViolates) =>
        /\ \A f \in FieldSet(page.form) :
              (Required(page.form, f) /\ RuleViolated(f, values[f]))
                  => f \in invalid
        /\ ev.toasts = <<Toast("error", join(C11_ExpectedFrom(1), "<br>"))>>

\* C17: the donation handler runs the amount guard before the generic
\* validation: a submit whose amount is empty or at most 0 notifies the
\* amount message alone and changes no flag, also when a required-field
\* rule is violated; a submit whose amount passes the guard and that
\* violates a required-field rule flags exactly the violating required
\* fields and notifies the joined violation messages; neither sends
C17_AmountGuardBeforeValidation ==
    [][ev'.handler = "handleDonationProcessing" =>
          IF AmountEmptyOrNotPositive(values["amount"])
          THEN /\ ev'.toasts =
                     <<Toast("error", "Please enter a valid donation amount")>>
               /\ invalid' = invalid
               /\ ev'.ajax = <<>>
          ELSE SomeRequiredFieldViolates =>
               /\ ev'.toasts =
                     <<Toast("error", join(C11_ExpectedFrom(1), "<br>"))>>
               /\ \A f \in FieldSet(page.form) :
                     Required(page.form, f)
                         => (f \in invalid' <=> RuleViolated(f, values[f]))
               /\ ev'.ajax = <<>>]_vars

\* the donation handler has rejected the amount 1e-400, which is read as 0,
\* while the required email field is empty and not flagged
C17_Witness ==
    /\ ev.handler = "handleDonationProcessing"
    /\ ev.outcome = "amount"
    /\ values["amount"] = <<"1", "e", "-", "4", "0", "0">>
    /\ values["email"] = <<>>
    /\ "email" \notin invalid

\* C18: when validateForm returns, on its own or inside the submit handler,
\* a required field carries the invalid flag exactly when its value violated
\* a rule in this run, whatever flag it carried before, and a field that is
\* not required carries the flag exactly when it carried it before
C18_FlagsAfterValidation ==
    [][ev'.handler \in {"validateForm", "handleFormSubmission"} =>
          \A f \in FieldSet(page.form) :
              IF Required(page.form, f)
              THEN f \in invalid' <=> C11_Violations(f, values[f]) # <<>>
              ELSE f \in invalid' <=> f \in invalid]_vars

\* validateForm has run on the markup with optional controls: the required
\* name passes and is not flagged, the optional email holds no email
\* address and is not flagged, the optional phone holds a phone number and
\* is still flagged
C18_Witness ==
    /\ ev.handler = "validateForm"
    /\ page.form = "contact-optional"
    /\ values["name"] = <<"A", "l">>
    /\ values["email"] = <<"a", "b">>
    /\ values["phone"] = C12_SamplePhone
    /\ invalid = {"phone"}

\* the submit about to run passes the local checks: no required-field rule
\* is violated and, on the donation form, the amount is not rejected
C19_PassesLocalChecks ==
    /\ ~SomeRequiredFieldViolates
    /\ page.form = "donation" => ~AmountEmptyOrNotPositive(values["amount"])

\* the callbacks that complete a request
CompletionCallbacks == {"success", "error", "successWithoutEnvelope"}

\* the step is a success callback of a form given a success = true envelope
C19_TrueEnvelope ==
    ev'.handler = "success" /\ ev'.op \in Forms /\ ev'.arg.success

\* the step is a success callback of a form given a success = false envelope
C19_FalseEnvelope ==
    ev'.handler = "success" /\ ev'.op \in Forms /\ ~ev'.arg.success

\* C19: a submit that passes the local checks issues exactly one POST of
\* the current values, appended to the requests in flight however many
\* there are, and one that fails them issues none; a completion callback,
\* success or error, ends exactly one request in flight, whatever its
\* position, and issues none, and it alone decides the values and the
\* flags of the form, from the state it meets and the response it is given:
\* after a success = true envelope the values are reset and the flags are
\* cleared on the contact form and kept on the others; after a success =
\* false envelope the values are kept and the fields named in errors are
\* flagged in addition; after a transport failure, a response without an
\* envelope or a completion of the event-detail fetch both are kept; no
\* other step touches the requests in flight
C19_NoLockoutOneCallbackPerRequest ==
    [][/\ (ev'.handler \in SubmitHandlers /\ C19_PassesLocalChecks) =>
            /\ Len(ev'.ajax) = 1
            /\ ev'.ajax[1].type = "POST"
            /\ ev'.ajax[1].data = serialize(page.form, values)
            /\ inflight' = Append(inflight, ev'.ajax[1])
       /\ (ev'.handler \in SubmitHandlers /\ ~C19_PassesLocalChecks) =>
            ev'.ajax = <<>> /\ inflight' = inflight
       /\ ev'.handler \in CompletionCallbacks =>
            /\ \E i \in 1..Len(inflight) :
                  inflight' = Remove(inflight, i) /\ inflight[i].op = ev'.op
            /\ ev'.ajax = <<>>
            /\ values' = IF C19_TrueEnvelope THEN ResetValues(page.form)
                         ELSE values
            /\ invalid' =
                  IF C19_TrueEnvelope
                  THEN IF ev'.op = "contact" THEN {} ELSE invalid
                  ELSE IF C19_FalseEnvelope
                  THEN invalid \cup
                       {f \in FieldSet(page.form) :
                           Has(ev'.arg, "errors") /\ f \in DOMAIN ev'.arg.errors}
                  ELSE invalid
       /\ ev'.handler \in {"edit", "constructor", "fadeEnd"} =>
            inflight' = inflight]_vars

\* a success callback given a success = false envelope has flagged a field
\* of the form while another request of the same form is still in flight
C19_Witness ==
    /\ ev.handler = "success"
    /\ ev.op \in Forms
    /\ ~ev.arg.success
    /\ invalid # {}
    /\ inflight # <<>>
    /\ \A k \in 1..Len(inflight) : inflight[k].op = ev.op

\* the last command given to #loading-spinner: after fadeOut the element is
\* not displayed or on its way out, after fadeIn displayed or on its way in
C20_CommandedHidden == spinner \in {"hidden", "fadingOut"}
C20_CommandedShown == spinner \in {"shown", "fadingIn"}

\* C20: the loading indicator follows the last command and counts nothing:
\* after every completion callback it is commanded hidden, however many
\* requests are still in flight, and after every step that issues a request
\* it is commanded shown
C20_SpinnerFollowsLastCommand ==
    /\ ev.handler \in CompletionCallbacks =>
          ev.spinnerCmds = <<FALSE>> /\ C20_CommandedHidden
    /\ ev.ajax # <<>> => ev.spinnerCmds = <<TRUE>> /\ C20_CommandedShown

\* of two overlapping requests of different handlers, the POST of a form
\* has completed: its callback has commanded the indicator hidden, and the
\* indicator is fading out, while the event-detail fetch is still in flight
C20_Witness ==
    /\ ev.handler \in CompletionCallbacks
    /\ ev.op \in Forms
    /\ spinner = "fadingOut"
    /\ Len(inflight) >= 1
    /\ \A k \in 1..Len(inflight) : inflight[k].op = "event"

\* C21: whenever no request is in flight the last command given to the
\* loading indicator is hide, whatever submits, event-detail clicks and
\* completions came before, and a step issues a request only together with
\* the command to show the indicator
C21_HiddenWhenNothingInFlight ==
    /\ inflight = <<>> => spinner \in {"hidden", "fadingOut"}
    /\ ev.ajax # <<>> => TRUE \in {ev.spinnerCmds[k] : k \in 1..Len(ev.spinnerCmds)}

\* the text is a decimal numeral of a number greater than 0: digits with at
\* most one point, one of the digits not 0
C22_PositiveNumber(s) ==
    /\ \A k \in 1..Len(s) : s[k] \in Digits \cup {"."}
    /\ Cardinality({k \in 1..Len(s) : s[k] = "."}) <= 1
    /\ \E k \in 1..Len(s) : s[k] \in Digits \ {"0"}

\* C22: every donation POST in flight carries an amount that is a number
\* greater than 0
C22_DonationPostCarriesPositiveAmount ==
    \A k \in 1..Len(inflight) :
        inflight[k].op = "donation" =>
            \A j \in 1..Len(inflight[k].data) :
                inflight[k].data[j].name = "amount"
                    => C22_PositiveNumber(inflight[k].data[j].value)

====
